---- MODULE Spec2Model ----
(***************************************************************************)
(* om-jailbot: a Discord moderation bot that strips a member's roles,      *)
(* gives them the "incarcerated" role, records the suspension in SQLite    *)
(* and restores the roles when the sentence ends (manual /unjail or the    *)
(* background expiry sweep).                                               *)
(*                                                                         *)
(* The model follows src/om_jailbot.py.  Code between two awaits runs      *)
(* atomically (one asyncio event loop), so every action below is the code  *)
(* from one resumption of a coroutine to its next await.                   *)
(***************************************************************************)
EXTENDS Integers, Sequences, FiniteSets, TLC

VARIABLES
    now,               \* datetime.now(), in seconds
    guilds,            \* guild ids bot.get_guild resolves
    members,           \* user ids guild.get_member resolves
    guildRoles,        \* role ids guild.get_role resolves
    memberRoles,       \* user id -> role ids held (without @everyone)
    suspensions,       \* table suspensions: a set of rows
    suspension_logs,   \* table suspension_logs: rows in insertion order
    criminal_records,  \* table criminal_records: rows in insertion order
    interactions,      \* slash-command invocations in flight, by slot
    sweeper,           \* the check_expired_suspensions tasks, by task
    invoked,           \* number of slash commands invoked so far
    events,            \* number of platform events (leave, delete, kick) so far
    restarts,          \* number of process restarts so far
    heldBefore,        \* user id -> roles held when /jail last captured them
    lastCall,          \* the last direct store call and what it returned
    court_channel,     \* ids of the bot's messages in the court record channel
    sticky_messages,   \* table sticky_messages: the stored message_id, or None
    refreshers,        \* the send_sticky_message calls, by coroutine
    refreshes,         \* number of send_sticky_message calls begun so far
    connection,        \* the sqlite3 connection of a store write in progress
    inbox,             \* the messages the gateway delivered, in order, each with
                       \* whether on_message has run for it
    suspended_users    \* the earlier revision's dictionary: user id -> roles held

vars == <<now, guilds, members, guildRoles, memberRoles, suspensions,
          suspension_logs, criminal_records, interactions, sweeper,
          invoked, events, restarts, heldBefore, lastCall, court_channel,
          sticky_messages, refreshers, refreshes,
          connection, inbox, suspended_users>>

platform == <<guilds, members, guildRoles>>
store == <<suspensions, suspension_logs, criminal_records>>
counters == <<invoked, events, restarts>>
publisher == <<court_channel, sticky_messages, refreshers, refreshes>>

(***************************************************************************)
(* Bounds of the model.                                                    *)
(***************************************************************************)
MaxClockSteps == 1      \* the clock advances at most this many times
MaxInvocations == 2     \* slash commands invoked in one run
MaxEvents == 1          \* platform events (member leaves, role deleted, bot kicked)
MaxRestarts == 1        \* process restarts in one run
MaxStoreCalls == 3      \* direct store calls in the store-only specification
MaxRefreshes == 3       \* send_sticky_message calls in the publisher specification
MaxMessages == 2        \* messages people post in the message specification

(***************************************************************************)
(* Identifiers.  Discord ids are positive integers; 0 stands for None.     *)
(***************************************************************************)
None == 0
Guild == 100
Everyone == Guild              \* @everyone, always member.roles[0]
SUSPENDED_ROLE_ID == 3
COURT_RECORD_CHANNEL_ID == 5
LOG_CHANNEL_ID == 6
ALLOWED_ROLES == {4}
StaffRole == 1
OtherRole == 12                \* a second role a member can hold
OtherGuild == 200              \* a second guild with records of its own
Users == {1, 2}
Moderator == 7                 \* a caller holding an allow-listed role
Civilian == 8                  \* a caller holding none
Callers == {Moderator, Civilian}
CallerRoles(c) == IF c = Moderator THEN {4} ELSE {}
RoleIds == {StaffRole, SUSPENDED_ROLE_ID}
Slots == {1, 2}
ClockStep == 3600

(***************************************************************************)
(* Timestamps are stored as TEXT.  A stored text is an ISO string of an    *)
(* instant, NULL, or something datetime.fromisoformat rejects.             *)
(***************************************************************************)
\* datetime.isoformat(): the date (as a day number) and the time of day,
\* field by field; the clock of the model runs in whole seconds
isoformat(t) ==
    [kind |-> "iso", date |-> t \div 86400, hour |-> (t % 86400) \div 3600,
     minute |-> (t % 3600) \div 60, second |-> t % 60]
NullText == [kind |-> "null"]
BadText == [kind |-> "bad"]
\* datetime.fromisoformat: raises ValueError on text it cannot parse, and
\* a NULL makes the comparison after it raise TypeError
Parses(x) == x.kind = "iso"
fromisoformat(x) == x.date * 86400 + x.hour * 3600 + x.minute * 60 + x.second

(***************************************************************************)
(* previous_roles is stored as JSON text.  A text is a sequence of         *)
(* characters; json.dumps writes a list of ints as "[1, 23]".              *)
(***************************************************************************)
DigitChars == <<"0", "1", "2", "3", "4", "5", "6", "7", "8", "9">>

RECURSIVE Decimal(_)
Decimal(n) ==
    IF n < 10 THEN <<DigitChars[n + 1]>>
    ELSE Decimal(n \div 10) \o <<DigitChars[(n % 10) + 1]>>

RECURSIVE JoinItems(_)
JoinItems(ids) ==
    IF ids = <<>> THEN <<>>
    ELSE IF Len(ids) = 1 THEN Decimal(ids[1])
    ELSE Decimal(ids[1]) \o <<",", " ">> \o JoinItems(Tail(ids))

\* faulty variant: the items are written without a separator
json_dumps_NoSeparator(ids) ==
    LET RECURSIVE Glue(_)
        Glue(rest) == IF rest = <<>> THEN <<>>
                      ELSE Decimal(rest[1]) \o Glue(Tail(rest))
    IN <<"[">> \o Glue(ids) \o <<"]">>

\* json.dumps([role.id for role in previous_roles])
json_dumps(ids) == <<"[">> \o JoinItems(ids) \o <<"]">>

\* the scanner of json.loads over a list of ints: number is the int being
\* read, or -1 between two items
RECURSIVE ScanItems(_, _, _, _)
ScanItems(text, i, number, items) ==
    IF i > Len(text) THEN items
    ELSE LET ch == text[i]
         IN IF \E d \in 1..10 : DigitChars[d] = ch
            THEN LET value == (CHOOSE d \in 1..10 : DigitChars[d] = ch) - 1
                 IN ScanItems(text, i + 1,
                              (IF number = -1 THEN 0 ELSE number) * 10 + value,
                              items)
            ELSE IF ch \in {",", "]"} /\ number # -1
            THEN ScanItems(text, i + 1, -1, Append(items, number))
            ELSE ScanItems(text, i + 1, number, items)

\* json.loads(suspension[6])
json_loads(text) == ScanItems(text, 1, -1, <<>>)

RECURSIVE SortedSeq(_)
SortedSeq(S) ==
    IF S = {} THEN <<>>
    ELSE LET m == CHOOSE x \in S : \A y \in S : x <= y
         IN <<m>> \o SortedSeq(S \ {m})

Range(s) == {s[i] : i \in 1..Len(s)}

(***************************************************************************)
(* Duration resolver.                                                      *)
(***************************************************************************)
SUSPENSION_TIME_OPTIONS ==
    {"1 hour", "12 hours", "1 day", "3 days", "7 days", "30 days"}

\* faulty variant: the table of the earlier revision
convert_duration_to_seconds_Earlier(duration) ==
    CASE duration = "5 minutes" -> 5 * 60
      [] duration = "12 hours" -> 12 * 3600
      [] duration = "1 day" -> 24 * 3600
      [] duration = "3 days" -> 3 * 24 * 3600
      [] duration = "7 days" -> 7 * 24 * 3600
      [] duration = "30 days" -> 30 * 24 * 3600
      [] OTHER -> -1

convert_duration_to_seconds(duration) ==
    CASE duration = "1 hour" -> 1 * 3600
      [] duration = "12 hours" -> 12 * 3600
      [] duration = "1 day" -> 24 * 3600
      [] duration = "3 days" -> 3 * 24 * 3600
      [] duration = "7 days" -> 7 * 24 * 3600
      [] duration = "30 days" -> 30 * 24 * 3600
      [] OTHER -> -1


\* the fixed answer for a span below a minute, as one piece without a count
LessThanAMinute == <<<<0, "Less than a minute">>>>

\* f"{n} day{'s' if n != 1 else ''}" and the like
Part(n, unit) == <<n, IF n # 1 THEN unit \o "s" ELSE unit>>

\* faulty variant: the hours are taken of the whole span, not of what the days
\* leave
format_time_duration_WholeHours(seconds) ==
    IF seconds < 60 THEN LessThanAMinute
    ELSE LET days == seconds \div 86400
             hours == seconds \div 3600
             minutes == (seconds % 3600) \div 60
         IN (IF days > 0 THEN <<Part(days, "day")>> ELSE <<>>)
            \o (IF hours > 0 THEN <<Part(hours, "hour")>> ELSE <<>>)
            \o (IF minutes > 0 THEN <<Part(minutes, "minute")>> ELSE <<>>)

\* faulty variant: a span of exactly one minute is still "less than a minute"
format_time_duration_UpToMinute(seconds) ==
    IF seconds <= 60 THEN LessThanAMinute
    ELSE LET days == seconds \div 86400
             hours == (seconds % 86400) \div 3600
             minutes == (seconds % 3600) \div 60
         IN (IF days > 0 THEN <<Part(days, "day")>> ELSE <<>>)
            \o (IF hours > 0 THEN <<Part(hours, "hour")>> ELSE <<>>)
            \o (IF minutes > 0 THEN <<Part(minutes, "minute")>> ELSE <<>>)

\* format_time_duration: the parts that ", ".join puts together
format_time_duration(seconds) ==
    IF seconds < 60 THEN LessThanAMinute
    ELSE LET days == seconds \div 86400
             hours == (seconds % 86400) \div 3600
             minutes == (seconds % 3600) \div 60
         IN (IF days > 0 THEN <<Part(days, "day")>> ELSE <<>>)
            \o (IF hours > 0 THEN <<Part(hours, "hour")>> ELSE <<>>)
            \o (IF minutes > 0 THEN <<Part(minutes, "minute")>> ELSE <<>>)

(***************************************************************************)
(* DatabaseManager.  A database value is the three tables; every method    *)
(* is one committed transaction.                                           *)
(***************************************************************************)
NoRow == [user_id |-> None, guild_id |-> None, suspended_by |-> None,
          start_time |-> NullText, end_time |-> NullText,
          duration_text |-> "", previous_roles |-> json_dumps(<<>>),
          is_active |-> 0, reason |-> ""]

DB == [s |-> suspensions, l |-> suspension_logs, r |-> criminal_records]

\* faulty variant: a plain INSERT into a table without the primary key
InsertOrReplace_NoKey(rows, row) == rows \cup {row}

\* INSERT OR REPLACE on the PRIMARY KEY user_id
InsertOrReplace(rows, row) ==
    {r \in rows : r.user_id # row.user_id} \cup {row}

\* faulty variant: end_time = start_time + timedelta(minutes=duration_seconds)
add_suspension_Minutes(db, user_id, guild_id, suspended_by, duration_seconds, duration_text, previous_roles, reason, clock) ==
    LET start_time_str == isoformat(clock)
        end_time_str == isoformat(clock + 60 * duration_seconds)
        roles_json == json_dumps(previous_roles)
        row == [user_id |-> user_id, guild_id |-> guild_id,
                suspended_by |-> suspended_by,
                start_time |-> start_time_str, end_time |-> end_time_str,
                duration_text |-> duration_text,
                previous_roles |-> roles_json,
                is_active |-> 1, reason |-> reason]
        log == [user_id |-> user_id, guild_id |-> guild_id,
                action |-> "SUSPENDED", performed_by |-> suspended_by,
                timestamp |-> start_time_str]
        rec == [user_id |-> user_id, guild_id |-> guild_id,
                sentenced_by |-> suspended_by,
                start_time |-> start_time_str, end_time |-> end_time_str,
                actual_end_time |-> NullText,
                duration_text |-> duration_text, reason |-> reason,
                released_by |-> None, release_type |-> "TIME_SERVED"]
    IN [s |-> InsertOrReplace(db.s, row),
        l |-> Append(db.l, log),
        r |-> Append(db.r, rec)]

add_suspension(db, user_id, guild_id, suspended_by, duration_seconds, duration_text, previous_roles, reason, clock) ==
    LET start_time_str == isoformat(clock)
        end_time_str == isoformat(clock + duration_seconds)
        roles_json == json_dumps(previous_roles)
        row == [user_id |-> user_id, guild_id |-> guild_id,
                suspended_by |-> suspended_by,
                start_time |-> start_time_str, end_time |-> end_time_str,
                duration_text |-> duration_text,
                previous_roles |-> roles_json,
                is_active |-> 1, reason |-> reason]
        log == [user_id |-> user_id, guild_id |-> guild_id,
                action |-> "SUSPENDED", performed_by |-> suspended_by,
                timestamp |-> start_time_str]
        rec == [user_id |-> user_id, guild_id |-> guild_id,
                sentenced_by |-> suspended_by,
                start_time |-> start_time_str, end_time |-> end_time_str,
                actual_end_time |-> NullText,
                duration_text |-> duration_text, reason |-> reason,
                released_by |-> None, release_type |-> "TIME_SERVED"]
    IN [s |-> InsertOrReplace(db.s, row),
        l |-> Append(db.l, log),
        r |-> Append(db.r, rec)]

\* faulty variant: the query also asks for end_time to lie in the future, as
\* get_all_active_suspensions does
get_active_suspension_Unexpired(db, user_id) ==
    LET found == {r \in db.s : /\ r.user_id = user_id
                               /\ r.is_active = 1
                               /\ Parses(r.end_time)
                               /\ fromisoformat(r.end_time) > now}
    IN IF found = {} THEN NoRow ELSE CHOOSE r \in found : TRUE

\* faulty variant: the query forgets AND is_active = 1
get_active_suspension_AnyRow(db, user_id) ==
    LET found == {r \in db.s : r.user_id = user_id}
    IN IF found = {} THEN NoRow ELSE CHOOSE r \in found : TRUE

\* SELECT * FROM suspensions WHERE user_id = ? AND is_active = 1; fetchone()
get_active_suspension(db, user_id) ==
    LET found == {r \in db.s : r.user_id = user_id /\ r.is_active = 1}
    IN IF found = {} THEN NoRow ELSE CHOOSE r \in found : TRUE

\* the rows in rowid order (rowid is user_id)
RowsInOrder(rows) ==
    LET ids == SortedSeq({r.user_id : r \in rows})
    IN [i \in 1..Len(ids) |-> CHOOSE r \in rows : r.user_id = ids[i]]

\* faulty variant: the comparison is end_time < current_time
IsExpired_Strict(row, clock) ==
    IF Parses(row.end_time) THEN fromisoformat(row.end_time) < clock
    ELSE TRUE

\* end_time <= current_time, or the except clause
IsExpired(row, clock) ==
    IF Parses(row.end_time) THEN fromisoformat(row.end_time) <= clock
    ELSE TRUE

get_expired_suspensions(db, clock) ==
    RowsInOrder({r \in db.s : r.is_active = 1 /\ IsExpired(r, clock)})

\* faulty variant: the UPDATE that sets is_active = 0 is missing
end_suspension_KeepsActive(db, user_id, ended_by, clock) ==
    LET suspension == get_active_suspension(db, user_id)
        log == [user_id |-> user_id, guild_id |-> suspension.guild_id,
                action |-> IF ended_by # None THEN "RELEASED" ELSE "EXPIRED",
                performed_by |-> ended_by, timestamp |-> isoformat(clock)]
    IN IF suspension = NoRow THEN [db |-> db, ret |-> NoRow]
       ELSE [db |-> [db EXCEPT !.l = Append(db.l, log)], ret |-> suspension]

\* faulty variant: release_type keeps the column default whoever ended it
end_suspension_DefaultType(db, user_id, ended_by, clock) ==
    LET suspension == get_active_suspension(db, user_id)
        action == IF ended_by # None THEN "RELEASED" ELSE "EXPIRED"
        current_time == isoformat(clock)
        log == [user_id |-> user_id, guild_id |-> suspension.guild_id,
                action |-> action, performed_by |-> ended_by,
                timestamp |-> current_time]
    IN IF suspension = NoRow THEN [db |-> db, ret |-> NoRow]
       ELSE [db |->
               [s |-> {IF r.user_id = user_id /\ r.is_active = 1
                       THEN [r EXCEPT !.is_active = 0] ELSE r : r \in db.s},
                l |-> Append(db.l, log),
                r |-> [i \in 1..Len(db.r) |->
                        IF db.r[i].user_id = user_id
                           /\ db.r[i].actual_end_time = NullText
                        THEN [db.r[i] EXCEPT !.actual_end_time = current_time,
                                             !.released_by = ended_by]
                        ELSE db.r[i]]],
             ret |-> suspension]

end_suspension(db, user_id, ended_by, clock) ==
    LET suspension == get_active_suspension(db, user_id)
        action == IF ended_by # None THEN "RELEASED" ELSE "EXPIRED"
        release_type == IF ended_by # None THEN "MANUAL_RELEASE" ELSE "TIME_SERVED"
        current_time == isoformat(clock)
        log == [user_id |-> user_id, guild_id |-> suspension.guild_id,
                action |-> action, performed_by |-> ended_by,
                timestamp |-> current_time]
    IN IF suspension = NoRow THEN [db |-> db, ret |-> NoRow]
       ELSE [db |->
               [s |-> {IF r.user_id = user_id /\ r.is_active = 1
                       THEN [r EXCEPT !.is_active = 0] ELSE r : r \in db.s},
                l |-> Append(db.l, log),
                r |-> [i \in 1..Len(db.r) |->
                        IF db.r[i].user_id = user_id
                           /\ db.r[i].actual_end_time = NullText
                        THEN [db.r[i] EXCEPT !.actual_end_time = current_time,
                                             !.released_by = ended_by,
                                             !.release_type = release_type]
                        ELSE db.r[i]]],
             ret |-> suspension]

\* json.loads(suspension[6]) of the active row, or []
get_previous_roles(db, user_id) ==
    LET suspension == get_active_suspension(db, user_id)
    IN IF suspension # NoRow THEN json_loads(suspension.previous_roles) ELSE <<>>

Max(a, b) == IF a >= b THEN a ELSE b

\* faulty variant: total_seconds += time_served, without max(0, ...)
TimeServed_NoClamp(record) ==
    LET actual_end == record.actual_end_time
        scheduled_end == record.end_time
        end_text == IF actual_end # NullText THEN actual_end ELSE scheduled_end
    IN IF Parses(record.start_time) /\ Parses(end_text)
       THEN fromisoformat(end_text) - fromisoformat(record.start_time)
       ELSE 0

\* what one record adds to total_seconds; a ValueError or TypeError skips
\* the record
TimeServed(record) ==
    LET actual_end == record.actual_end_time
        scheduled_end == record.end_time
        end_text == IF actual_end # NullText THEN actual_end ELSE scheduled_end
    IN IF Parses(record.start_time) /\ Parses(end_text)
       THEN Max(0, fromisoformat(end_text) - fromisoformat(record.start_time))
       ELSE 0

RECURSIVE TotalFrom(_, _, _, _)
TotalFrom(records, i, user_id, guild_id) ==
    IF i > Len(records) THEN 0
    ELSE (IF records[i].user_id = user_id /\ records[i].guild_id = guild_id
          THEN TimeServed(records[i]) ELSE 0)
         + TotalFrom(records, i + 1, user_id, guild_id)

get_total_time_served(db, user_id, guild_id) == TotalFrom(db.r, 1, user_id, guild_id)

SetStore(db) ==
    /\ suspensions' = db.s
    /\ suspension_logs' = db.l
    /\ criminal_records' = db.r

(***************************************************************************)
(* Platform calls.  member.remove_roles / member.add_roles are HTTP calls: *)
(* they take effect and return, or raise discord.Forbidden or another      *)
(* discord.HTTPException.  A call on a member who left, in a guild the bot *)
(* was removed from, or with a deleted role cannot succeed.                *)
(***************************************************************************)
RoleCallOutcomes == {"ok", "forbidden", "http"}

CanSucceed(member, roles) ==
    /\ Guild \in guilds
    /\ member \in members
    /\ roles \subseteq guildRoles

Possible(outcome, member, roles) ==
    outcome = "ok" => CanSucceed(member, roles)

ErrorResult(outcome) == IF outcome = "forbidden" THEN "forbidden" ELSE "http_error"

\* faulty variant: the lookup still returns a member who has left
get_member_Cached(user_id) == user_id

\* guild.get_member(user_id): the member, or None once they left
get_member(user_id) == IF user_id \in members THEN user_id ELSE None

\* guild.get_role(role_id): the role, or None once it is deleted
get_role(role_id) == IF role_id \in guildRoles THEN role_id ELSE None

\* faulty variant: the list is used as looked up, None entries included
ResolveRoles_Unfiltered(role_ids) == role_ids

\* [guild.get_role(id) for id in ids], then [role for role in roles if role]
ResolveRoles(role_ids) == SelectSeq(role_ids, LAMBDA id : get_role(id) # None)

\* seq[1:]
FromSecond(seq) == IF seq = <<>> THEN <<>> ELSE Tail(seq)

\* faulty variant: member.roles without @everyone in front, so that [1:] drops a
\* real role
member_roles_NoEveryone(member) == SortedSeq(memberRoles[member])

\* member.roles: @everyone first, then the held roles by position
member_roles(member) == <<Everyone>> \o SortedSeq(memberRoles[member])

\* faulty variant: all(...) in place of any(...), which a caller without roles
\* passes
is_allowed_role_All(caller) == \A role \in CallerRoles(caller) : role \in ALLOWED_ROLES

is_allowed_role(caller) == \E role \in CallerRoles(caller) : role \in ALLOWED_ROLES

(***************************************************************************)
(* Slash commands.                                                         *)
(***************************************************************************)
IdleInteraction ==
    [pc |-> "idle", kind |-> "none", user |-> None, member |-> None,
     duration |-> "", current_roles |-> <<>>, suspension |-> NoRow,
     previous_roles |-> <<>>, result |-> "none", until |-> 0,
     unjailed |-> FALSE]

Finished(it, result) ==
    [IdleInteraction EXCEPT !.pc = "done", !.kind = it.kind, !.user = it.user,
                            !.member = it.member, !.result = result]

CanInvoke(slot, member) ==
    /\ interactions[slot].pc \in {"idle", "done"}
    /\ invoked < MaxInvocations
    /\ Guild \in guilds
    /\ member \in members

\* /jail is received: the is_allowed_role check, then suspend() runs to its
\* first await, interaction.response.defer
JailInvoke(slot, caller, member, duration) ==
    /\ CanInvoke(slot, member)
    /\ invoked' = invoked + 1
    /\ interactions' = [interactions EXCEPT ![slot] =
          IF is_allowed_role(caller)
          THEN [IdleInteraction EXCEPT !.pc = "jail_defer", !.kind = "jail",
                    !.user = caller, !.member = member, !.duration = duration]
          ELSE Finished([IdleInteraction EXCEPT !.kind = "jail", !.user = caller,
                                                !.member = member], "denied")]
    /\ UNCHANGED <<suspended_users, connection, inbox, publisher, now, platform, memberRoles, store, sweeper, events, restarts, heldBefore, lastCall>>

\* faulty variant: the duration is looked up before the role and the active row
JailCheck_DurationFirst(slot) ==
    LET it == interactions[slot]
        current_roles == FromSecond(member_roles(it.member))
        suspend_role == get_role(SUSPENDED_ROLE_ID)
        duration_seconds == convert_duration_to_seconds(it.duration)
    IN /\ it.pc = "jail_defer"
       /\ interactions' = [interactions EXCEPT ![slot] =
             IF duration_seconds = -1 THEN Finished(it, "invalid_duration")
             ELSE IF suspend_role = None THEN Finished(it, "role_not_found")
             ELSE IF get_active_suspension(DB, it.member) # NoRow
                THEN Finished(it, "already_jailed")
             ELSE [it EXCEPT !.current_roles = current_roles,
                             !.pc = IF current_roles = <<>> THEN "jail_add"
                                    ELSE "jail_remove"]]
       /\ heldBefore' = IF interactions'[slot].pc \in {"jail_add", "jail_remove"}
                        THEN [heldBefore EXCEPT ![it.member] = memberRoles[it.member]]
                        ELSE heldBefore
       /\ UNCHANGED <<suspended_users, connection, inbox, publisher, now, platform, memberRoles, store, sweeper, invoked,
                      events, restarts, lastCall>>

\* suspend() from the return of defer to the await of member.remove_roles
\* (or of member.add_roles when there is no role to remove)
JailCheck(slot) ==
    LET it == interactions[slot]
        current_roles == FromSecond(member_roles(it.member))
        suspend_role == get_role(SUSPENDED_ROLE_ID)
        duration_seconds == convert_duration_to_seconds(it.duration)
    IN /\ it.pc = "jail_defer"
       /\ interactions' = [interactions EXCEPT ![slot] =
             IF get_active_suspension(DB, it.member) # NoRow
                THEN Finished(it, "already_jailed")
             ELSE IF suspend_role = None THEN Finished(it, "role_not_found")
             ELSE IF duration_seconds = -1 THEN Finished(it, "invalid_duration")
             ELSE [it EXCEPT !.current_roles = current_roles,
                             !.pc = IF current_roles = <<>> THEN "jail_add"
                                    ELSE "jail_remove"]]
       /\ heldBefore' = IF interactions'[slot].pc \in {"jail_add", "jail_remove"}
                        THEN [heldBefore EXCEPT ![it.member] = memberRoles[it.member]]
                        ELSE heldBefore
       /\ UNCHANGED <<suspended_users, connection, inbox, publisher, now, platform, memberRoles, store, sweeper, invoked,
                      events, restarts, lastCall>>

\* member.remove_roles(*current_roles) returns or raises
JailRemoveDone(slot, outcome) ==
    LET it == interactions[slot]
    IN /\ it.pc = "jail_remove"
       /\ Possible(outcome, it.member, Range(it.current_roles))
       /\ IF outcome = "ok"
          THEN /\ memberRoles' = [memberRoles EXCEPT ![it.member] =
                                     @ \ Range(it.current_roles)]
               /\ interactions' = [interactions EXCEPT ![slot].pc = "jail_add"]
          ELSE /\ interactions' = [interactions EXCEPT ![slot] =
                                     Finished(it, ErrorResult(outcome))]
               /\ UNCHANGED memberRoles
       /\ UNCHANGED <<suspended_users, connection, inbox, publisher, now, platform, store, sweeper, invoked, events, restarts, heldBefore, lastCall>>

\* faulty variant: db.add_suspension is called before member.add_roles, so the row
\* is written whether or not the call succeeds
JailAddDone_PersistFirst(slot, outcome) ==
    LET it == interactions[slot]
    IN /\ it.pc = "jail_add"
       /\ Possible(outcome, it.member, {SUSPENDED_ROLE_ID})
       /\ SetStore(add_suspension(DB, it.member, Guild, it.user,
              convert_duration_to_seconds(it.duration), it.duration,
              it.current_roles, "No reason provided", now))
       /\ IF outcome = "ok"
          THEN /\ memberRoles' = [memberRoles EXCEPT ![it.member] =
                                     @ \cup {SUSPENDED_ROLE_ID}]
               /\ interactions' = [interactions EXCEPT ![slot].pc = "jail_notify"]
          ELSE /\ interactions' = [interactions EXCEPT ![slot] =
                                     Finished(it, ErrorResult(outcome))]
               /\ UNCHANGED memberRoles
       /\ UNCHANGED <<suspended_users, connection, inbox, publisher, now, platform, sweeper, invoked, events, restarts,
                      heldBefore, lastCall>>

\* member.add_roles(suspend_role) returns or raises; on return
\* db.add_suspension runs before the next await
JailAddDone(slot, outcome) ==
    LET it == interactions[slot]
    IN /\ it.pc = "jail_add"
       /\ Possible(outcome, it.member, {SUSPENDED_ROLE_ID})
       /\ IF outcome = "ok"
          THEN /\ memberRoles' = [memberRoles EXCEPT ![it.member] =
                                     @ \cup {SUSPENDED_ROLE_ID}]
               /\ SetStore(add_suspension(DB, it.member, Guild, it.user,
                      convert_duration_to_seconds(it.duration), it.duration,
                      it.current_roles, "No reason provided", now))
               /\ interactions' = [interactions EXCEPT ![slot].pc = "jail_notify"]
          ELSE /\ interactions' = [interactions EXCEPT ![slot] =
                                     Finished(it, ErrorResult(outcome))]
               /\ UNCHANGED <<memberRoles, store>>
       /\ UNCHANGED <<suspended_users, connection, inbox, publisher, now, platform, sweeper, invoked, events, restarts, heldBefore, lastCall>>

\* the confirmation and log embeds are sent (or the send raises HTTPException)
JailNotified(slot, sent) ==
    LET it == interactions[slot]
    IN /\ it.pc = "jail_notify"
       /\ interactions' = [interactions EXCEPT ![slot] =
             IF sent THEN [it EXCEPT !.pc = "jail_refresh"]
             ELSE Finished(it, "http_error")]
       /\ UNCHANGED <<suspended_users, connection, inbox, publisher, now, platform, memberRoles, store, sweeper, invoked,
                      events, restarts, heldBefore, lastCall>>

\* update_bot_activity() returns
JailRefreshed(slot) ==
    LET it == interactions[slot]
    IN /\ it.pc = "jail_refresh"
       /\ interactions' = [interactions EXCEPT ![slot] = Finished(it, "ok")]
       /\ UNCHANGED <<suspended_users, connection, inbox, publisher, now, platform, memberRoles, store, sweeper, invoked,
                      events, restarts, heldBefore, lastCall>>

\* /unjail is received
UnjailInvoke(slot, caller, member) ==
    /\ CanInvoke(slot, member)
    /\ invoked' = invoked + 1
    /\ interactions' = [interactions EXCEPT ![slot] =
          IF is_allowed_role(caller)
          THEN [IdleInteraction EXCEPT !.pc = "unjail_defer", !.kind = "unjail",
                    !.user = caller, !.member = member]
          ELSE Finished([IdleInteraction EXCEPT !.kind = "unjail", !.user = caller,
                                                !.member = member], "denied")]
    /\ UNCHANGED <<suspended_users, connection, inbox, publisher, now, platform, memberRoles, store, sweeper, events, restarts, heldBefore, lastCall>>

\* unsuspend() from the return of defer to the await of member.remove_roles
UnjailCheck(slot) ==
    LET it == interactions[slot]
        suspension == get_active_suspension(DB, it.member)
        suspend_role == get_role(SUSPENDED_ROLE_ID)
    IN /\ it.pc = "unjail_defer"
       /\ interactions' = [interactions EXCEPT ![slot] =
             IF suspension = NoRow THEN Finished(it, "not_jailed")
             ELSE IF suspend_role = None THEN Finished(it, "role_not_found")
             ELSE [it EXCEPT !.suspension = suspension,
                      !.previous_roles =
                          ResolveRoles(json_loads(suspension.previous_roles)),
                      !.pc = "unjail_remove"]]
       /\ UNCHANGED <<suspended_users, connection, inbox, publisher, now, platform, memberRoles, store, sweeper, invoked,
                      events, restarts, heldBefore, lastCall>>

\* member.remove_roles(suspend_role) returns or raises; with no previous
\* role to add back db.end_suspension runs before the next await
UnjailRemoveDone(slot, outcome) ==
    LET it == interactions[slot]
    IN /\ it.pc = "unjail_remove"
       /\ Possible(outcome, it.member, {SUSPENDED_ROLE_ID})
       /\ IF outcome = "ok"
          THEN /\ memberRoles' = [memberRoles EXCEPT ![it.member] =
                                     @ \ {SUSPENDED_ROLE_ID}]
               /\ IF it.previous_roles # <<>>
                  THEN /\ interactions' = [interactions EXCEPT ![slot].pc = "unjail_add"]
                       /\ UNCHANGED store
                  ELSE /\ SetStore(end_suspension(DB, it.member, it.user, now).db)
                       /\ interactions' = [interactions EXCEPT ![slot].pc = "unjail_notify"]
          ELSE /\ interactions' = [interactions EXCEPT ![slot] =
                                     Finished(it, ErrorResult(outcome))]
               /\ UNCHANGED <<memberRoles, store>>
       /\ UNCHANGED <<suspended_users, connection, inbox, publisher, now, platform, sweeper, invoked, events, restarts, heldBefore, lastCall>>

\* member.add_roles(*previous_roles) returns or raises; on return
\* db.end_suspension runs before the next await
UnjailAddDone(slot, outcome) ==
    LET it == interactions[slot]
    IN /\ it.pc = "unjail_add"
       /\ Possible(outcome, it.member, Range(it.previous_roles))
       /\ IF outcome = "ok"
          THEN /\ memberRoles' = [memberRoles EXCEPT ![it.member] =
                                     @ \cup Range(it.previous_roles)]
               /\ SetStore(end_suspension(DB, it.member, it.user, now).db)
               /\ interactions' = [interactions EXCEPT ![slot].pc = "unjail_notify"]
          ELSE /\ interactions' = [interactions EXCEPT ![slot] =
                                     Finished(it, ErrorResult(outcome))]
               /\ UNCHANGED <<memberRoles, store>>
       /\ UNCHANGED <<suspended_users, connection, inbox, publisher, now, platform, sweeper, invoked, events, restarts, heldBefore, lastCall>>

UnjailNotified(slot, sent) ==
    LET it == interactions[slot]
    IN /\ it.pc = "unjail_notify"
       /\ interactions' = [interactions EXCEPT ![slot] =
             IF sent THEN [it EXCEPT !.pc = "unjail_refresh"]
             ELSE Finished(it, "http_error")]
       /\ UNCHANGED <<suspended_users, connection, inbox, publisher, now, platform, memberRoles, store, sweeper, invoked,
                      events, restarts, heldBefore, lastCall>>

UnjailRefreshed(slot) ==
    LET it == interactions[slot]
    IN /\ it.pc = "unjail_refresh"
       /\ interactions' = [interactions EXCEPT ![slot] = Finished(it, "ok")]
       /\ UNCHANGED <<suspended_users, connection, inbox, publisher, now, platform, memberRoles, store, sweeper, invoked,
                      events, restarts, heldBefore, lastCall>>

(***************************************************************************)
(* The expiry sweeper, check_expired_suspensions.                          *)
(***************************************************************************)
SweeperUnstarted ==
    [pc |-> "unstarted", expired |-> <<>>, i |-> 0, status_updated |-> FALSE,
     previous_roles |-> <<>>]

\* Every on_ready event creates a task of its own; a gateway session that
\* cannot be resumed fires on_ready again in the same process.
Tasks == {1, 2}

NoTasks == [t \in Tasks |-> SweeperUnstarted]

\* The for loop from item i up to its next await: a record whose guild is
\* gone is skipped, a record whose member left is ended on the spot, and
\* the first record with a live member stops the run at the await of its
\* first platform call.  After the last item the tick awaits
\* update_bot_activity() or asyncio.sleep(60).
RECURSIVE SweepFrom(_, _, _, _)
SweepFrom(db, expired, i, status_updated) ==
    IF i > Len(expired)
    THEN [db |-> db,
          sw |-> [SweeperUnstarted EXCEPT
                     !.pc = IF status_updated THEN "refresh" ELSE "sleep"]]
    ELSE LET suspension == expired[i]
             user_id == suspension.user_id
             previous_roles == ResolveRoles(json_loads(suspension.previous_roles))
             item == [pc |-> "log", expired |-> expired, i |-> i,
                      status_updated |-> status_updated,
                      previous_roles |-> previous_roles]
         IN IF suspension.guild_id \notin guilds
            THEN SweepFrom(db, expired, i + 1, status_updated)
            ELSE IF get_member(user_id) = None
            THEN SweepFrom(end_suspension(db, user_id, None, now).db,
                           expired, i + 1, TRUE)
            ELSE IF get_role(SUSPENDED_ROLE_ID) # None
                    /\ SUSPENDED_ROLE_ID \in memberRoles[user_id]
            THEN [db |-> db, sw |-> [item EXCEPT !.pc = "remove"]]
            ELSE IF previous_roles # <<>>
            THEN [db |-> db, sw |-> [item EXCEPT !.pc = "add"]]
            ELSE [db |-> db, sw |-> item]

\* line 709, db.end_suspension(user_id), and on to the next item
SweepEndItem(t, status_updated) ==
    LET me == sweeper[t]
        user_id == me.expired[me.i].user_id
        next == SweepFrom(end_suspension(DB, user_id, None, now).db,
                          me.expired, me.i + 1, status_updated)
    IN /\ SetStore(next.db)
       /\ sweeper' = [sweeper EXCEPT ![t] = next.sw]

\* on_ready: bot.loop.create_task(check_expired_suspensions())
OnReady(t) ==
    /\ sweeper[t].pc = "unstarted"
    /\ \A u \in Tasks : u < t => sweeper[u].pc # "unstarted"
    /\ sweeper' = [sweeper EXCEPT ![t].pc = "ready"]
    /\ UNCHANGED <<suspended_users, connection, inbox, publisher, now, platform, memberRoles, store, interactions, invoked,
                   events, restarts, heldBefore, lastCall>>

\* one tick begins: db.get_expired_suspensions() and the loop up to its
\* first await
SweepTick(t) ==
    LET next == SweepFrom(DB, get_expired_suspensions(DB, now), 1, FALSE)
    IN /\ sweeper[t].pc = "ready"
       /\ SetStore(next.db)
       /\ sweeper' = [sweeper EXCEPT ![t] = next.sw]
       /\ UNCHANGED <<suspended_users, connection, inbox, publisher, now, platform, memberRoles, interactions, invoked,
                      events, restarts, heldBefore, lastCall>>

\* faulty variant: the exception is not caught inside the for loop and
\* reaches the handler of the while loop, which goes to asyncio.sleep
SweepRemoveDone_Abort(t, outcome) ==
    LET me == sweeper[t]
        user_id == me.expired[me.i].user_id
    IN /\ me.pc = "remove"
       /\ Possible(outcome, user_id, {SUSPENDED_ROLE_ID})
       /\ IF outcome = "ok"
          THEN /\ memberRoles' = [memberRoles EXCEPT ![user_id] =
                                     @ \ {SUSPENDED_ROLE_ID}]
               /\ sweeper' = [sweeper EXCEPT
                     ![t].status_updated = TRUE,
                     ![t].pc = IF me.previous_roles # <<>> THEN "add" ELSE "log"]
          ELSE /\ sweeper' = [sweeper EXCEPT ![t] =
                                 [SweeperUnstarted EXCEPT !.pc = "sleep"]]
               /\ UNCHANGED memberRoles
       /\ UNCHANGED <<suspended_users, connection, inbox, publisher, now, platform, store, interactions, invoked, events, restarts, heldBefore, lastCall>>

\* member.remove_roles(suspend_role) returns or raises
SweepRemoveDone(t, outcome) ==
    LET me == sweeper[t]
        user_id == me.expired[me.i].user_id
    IN /\ me.pc = "remove"
       /\ Possible(outcome, user_id, {SUSPENDED_ROLE_ID})
       /\ IF outcome = "ok"
          THEN /\ memberRoles' = [memberRoles EXCEPT ![user_id] =
                                     @ \ {SUSPENDED_ROLE_ID}]
               /\ sweeper' = [sweeper EXCEPT
                     ![t].status_updated = TRUE,
                     ![t].pc = IF me.previous_roles # <<>> THEN "add" ELSE "log"]
               /\ UNCHANGED store
          ELSE /\ SweepEndItem(t, me.status_updated)
               /\ UNCHANGED memberRoles
       /\ UNCHANGED <<suspended_users, connection, inbox, publisher, now, platform, interactions, invoked, events, restarts, heldBefore, lastCall>>

\* member.add_roles(*previous_roles) returns or raises
SweepAddDone(t, outcome) ==
    LET me == sweeper[t]
        user_id == me.expired[me.i].user_id
    IN /\ me.pc = "add"
       /\ Possible(outcome, user_id, Range(me.previous_roles))
       /\ IF outcome = "ok"
          THEN /\ memberRoles' = [memberRoles EXCEPT ![user_id] =
                                     @ \cup Range(me.previous_roles)]
               /\ sweeper' = [sweeper EXCEPT ![t].pc = "log"]
               /\ UNCHANGED store
          ELSE /\ SweepEndItem(t, me.status_updated)
               /\ UNCHANGED memberRoles
       /\ UNCHANGED <<suspended_users, connection, inbox, publisher, now, platform, interactions, invoked, events, restarts, heldBefore, lastCall>>

\* the release embeds are sent to the log channel (or the send raises
\* HTTPException, which the same except clause catches)
SweepLogDone(t) ==
    /\ sweeper[t].pc = "log"
    /\ SweepEndItem(t, sweeper[t].status_updated)
    /\ UNCHANGED <<suspended_users, connection, inbox, publisher, now, platform, memberRoles, interactions, invoked, events,
                   restarts, heldBefore, lastCall>>

\* update_bot_activity() returns; the task goes to sleep
SweepRefreshed(t) ==
    /\ sweeper[t].pc = "refresh"
    /\ sweeper' = [sweeper EXCEPT ![t].pc = "sleep"]
    /\ UNCHANGED <<suspended_users, connection, inbox, publisher, now, platform, memberRoles, store, interactions, invoked,
                   events, restarts, heldBefore, lastCall>>

\* asyncio.sleep(60) returns
SweepWake(t) ==
    /\ sweeper[t].pc = "sleep"
    /\ sweeper' = [sweeper EXCEPT ![t].pc = "ready"]
    /\ UNCHANGED <<suspended_users, connection, inbox, publisher, now, platform, memberRoles, store, interactions, invoked,
                   events, restarts, heldBefore, lastCall>>

(***************************************************************************)
(* The status publisher, send_sticky_message.  Its callers are on_ready,   *)
(* on_message and update_bot_activity (itself called by on_ready, /jail,   *)
(* /unjail and the sweep); each call is a coroutine of its own, and two    *)
(* can be in flight.  The tables of suspensions play no part in it.        *)
(***************************************************************************)
Refreshers == {1, 2}

\* the locals of a call: the id read from sticky_messages, how the attempt
\* to delete that message went, and the id of the message sent
NoRefresh ==
    [pc |-> "idle", stored_message_id |-> None, old |-> "none", message |-> None]

FetchOutcomes == {"ok", "not_found", "error"}

\* fetch_message and delete find the message, raise discord.NotFound when
\* it is gone, or raise something else (Forbidden, a 5xx)
CanHappen(outcome, message_id) ==
    /\ outcome = "ok" => message_id \in court_channel /\ Guild \in guilds
    /\ outcome = "not_found" => message_id \notin court_channel

\* send_sticky_message is called: bot.get_channel, create_sticky_embed and
\* db.get_sticky_message_id, up to the await of fetch_message or of send
RefreshBegin(p) ==
    /\ refreshers[p].pc = "idle"
    /\ refreshes < MaxRefreshes
    /\ refreshes' = refreshes + 1
    /\ refreshers' = [refreshers EXCEPT ![p] =
          IF Guild \notin guilds THEN NoRefresh
          ELSE IF sticky_messages # None
          THEN [NoRefresh EXCEPT !.pc = "fetch",
                                 !.stored_message_id = sticky_messages]
          ELSE [NoRefresh EXCEPT !.pc = "send"]]
    /\ UNCHANGED <<court_channel, sticky_messages>>
    /\ UNCHANGED <<suspended_users, connection, inbox, now, platform, memberRoles, store, interactions, sweeper,
                   counters, heldBefore, lastCall>>

\* channel.fetch_message(stored_message_id) returns or raises
RefreshFetched(p, outcome) ==
    LET me == refreshers[p]
    IN /\ me.pc = "fetch"
       /\ CanHappen(outcome, me.stored_message_id)
       /\ refreshers' = [refreshers EXCEPT ![p] =
             IF outcome = "ok" THEN [me EXCEPT !.pc = "delete"]
             ELSE [me EXCEPT !.pc = "send", !.old = outcome]]
       /\ UNCHANGED <<court_channel, sticky_messages, refreshes>>
       /\ UNCHANGED <<suspended_users, connection, inbox, now, platform, memberRoles, store, interactions, sweeper,
                      counters, heldBefore, lastCall>>

\* faulty variant: an exception of the delete ends the call
RefreshDeleted_Abort(p, outcome) ==
    LET me == refreshers[p]
    IN /\ me.pc = "delete"
       /\ CanHappen(outcome, me.stored_message_id)
       /\ court_channel' = IF outcome = "ok"
                           THEN court_channel \ {me.stored_message_id}
                           ELSE court_channel
       /\ refreshers' = [refreshers EXCEPT ![p] =
             IF outcome = "ok" THEN [me EXCEPT !.pc = "send", !.old = "deleted"]
             ELSE [me EXCEPT !.pc = "idle", !.old = outcome]]
       /\ UNCHANGED <<sticky_messages, refreshes>>
       /\ UNCHANGED <<suspended_users, connection, inbox, now, platform, memberRoles, store, interactions, sweeper,
                      counters, heldBefore, lastCall>>

\* old_message.delete() returns or raises; either way channel.send is next
RefreshDeleted(p, outcome) ==
    LET me == refreshers[p]
    IN /\ me.pc = "delete"
       /\ CanHappen(outcome, me.stored_message_id)
       /\ court_channel' = IF outcome = "ok"
                           THEN court_channel \ {me.stored_message_id}
                           ELSE court_channel
       /\ refreshers' = [refreshers EXCEPT ![p] =
             [me EXCEPT !.pc = "send",
                        !.old = IF outcome = "ok" THEN "deleted" ELSE outcome]]
       /\ UNCHANGED <<sticky_messages, refreshes>>
       /\ UNCHANGED <<suspended_users, connection, inbox, now, platform, memberRoles, store, interactions, sweeper,
                      counters, heldBefore, lastCall>>

\* the id Discord gives the next message: ids grow with time, and the
\* stored id is that of the newest message the bot sent
FirstMessageId == 1001
NewMessageId == IF sticky_messages = None THEN FirstMessageId ELSE sticky_messages + 1

\* a message as the gateway hands it to on_message: whether its author is a
\* bot account (the bot itself included) and the channel it is in
Delivered(author_bot, channel_id) ==
    [author_bot |-> author_bot, channel |-> channel_id, handled |-> FALSE]

\* channel.send(embed=embed, view=view) returns, and
\* db.update_sticky_message_id runs before the coroutine ends, and the
\* message sent comes back to the bot as an on_message event; or it raises
\* and the outer except clause ends the call
RefreshSent(p, outcome) ==
    LET me == refreshers[p]
    IN /\ me.pc = "send"
       /\ outcome = "ok" => Guild \in guilds
       /\ IF outcome = "ok"
          THEN /\ court_channel' = court_channel \cup {NewMessageId}
               /\ sticky_messages' = NewMessageId
               /\ refreshers' = [refreshers EXCEPT ![p] =
                                   [me EXCEPT !.pc = "idle", !.message = NewMessageId]]
               /\ inbox' = Append(inbox, Delivered(TRUE, COURT_RECORD_CHANNEL_ID))
          ELSE /\ refreshers' = [refreshers EXCEPT ![p] = [me EXCEPT !.pc = "idle"]]
               /\ UNCHANGED <<court_channel, sticky_messages, inbox>>
       /\ UNCHANGED refreshes
       /\ UNCHANGED <<suspended_users, connection, now, platform, memberRoles, store, interactions, sweeper,
                      counters, heldBefore, lastCall>>

\* somebody with the permission deletes a message of the bot by hand
MessageRemoved(message_id) ==
    /\ events < MaxEvents
    /\ message_id \in court_channel
    /\ court_channel' = court_channel \ {message_id}
    /\ events' = events + 1
    /\ UNCHANGED <<sticky_messages, refreshers, refreshes>>
    /\ UNCHANGED <<suspended_users, connection, inbox, now, platform, memberRoles, store, interactions, sweeper,
                   invoked, restarts, heldBefore, lastCall>>

(***************************************************************************)
(* The environment: the clock, the platform, the process.                  *)
(***************************************************************************)
Tick ==
    /\ now < MaxClockSteps * ClockStep
    /\ now' = now + ClockStep
    /\ UNCHANGED <<suspended_users, connection, inbox, publisher, platform, memberRoles, store, interactions, sweeper,
                   invoked, events, restarts, heldBefore, lastCall>>

MemberLeaves(user_id) ==
    /\ events < MaxEvents
    /\ user_id \in members
    /\ members' = members \ {user_id}
    /\ memberRoles' = [memberRoles EXCEPT ![user_id] = {}]
    /\ events' = events + 1
    /\ UNCHANGED <<suspended_users, connection, inbox, publisher, now, guilds, guildRoles, store, interactions, sweeper,
                   invoked, restarts, heldBefore, lastCall>>

RoleDeleted(role_id) ==
    /\ events < MaxEvents
    /\ role_id \in guildRoles
    /\ guildRoles' = guildRoles \ {role_id}
    /\ memberRoles' = [u \in Users |-> memberRoles[u] \ {role_id}]
    /\ events' = events + 1
    /\ UNCHANGED <<suspended_users, connection, inbox, publisher, now, guilds, members, store, interactions, sweeper,
                   invoked, restarts, heldBefore, lastCall>>

BotRemoved ==
    /\ events < MaxEvents
    /\ Guild \in guilds
    /\ guilds' = guilds \ {Guild}
    /\ events' = events + 1
    /\ UNCHANGED <<suspended_users, connection, inbox, publisher, now, members, guildRoles, memberRoles, store, interactions,
                   sweeper, invoked, restarts, heldBefore, lastCall>>

\* the process stops and is started again: coroutines and their locals are
\* gone, jailbot.db is what was committed
Restart ==
    /\ restarts < MaxRestarts
    /\ restarts' = restarts + 1
    /\ interactions' = [slot \in Slots |-> IdleInteraction]
    /\ sweeper' = NoTasks
    /\ connection' = IF connection.pc = "open"
                     THEN [connection EXCEPT !.pc = "lost"] ELSE connection
    /\ inbox' = <<>>
    /\ suspended_users' = <<>>
    /\ UNCHANGED <<publisher, now, platform, memberRoles, store, invoked, events,
                   heldBefore, lastCall>>

\* op and its arguments (user_id, guild_id, arg, roles), the clock at the
\* call, and what it returned: a row (ret), rows, a list of ids (ids), a
\* number (value) or a message (answer, with its label and parts)
NoCall ==
    [op |-> "none", user_id |-> None, guild_id |-> None, arg |-> "",
     roles |-> <<>>, clock |-> 0, ret |-> NoRow, rows |-> <<>>, ids |-> <<>>,
     value |-> 0, answer |-> "none", label |-> "", parts |-> <<>>]

\* The direct store calls of the store-only specification.
StoreCreate(user_id, suspended_by, duration, previous_roles) ==
    /\ invoked < MaxStoreCalls
    /\ invoked' = invoked + 1
    /\ SetStore(add_suspension(DB, user_id, Guild, suspended_by,
           convert_duration_to_seconds(duration), duration, previous_roles,
           "No reason provided", now))
    /\ lastCall' = [NoCall EXCEPT !.op = "create", !.user_id = user_id,
                                  !.guild_id = Guild, !.arg = duration,
                                  !.roles = previous_roles, !.clock = now,
                                  !.value = convert_duration_to_seconds(duration)]
    /\ UNCHANGED <<suspended_users, connection, inbox, publisher, now, platform, memberRoles, interactions, sweeper, events,
                   restarts, heldBefore>>

StoreEnd(user_id, ended_by) ==
    LET res == end_suspension(DB, user_id, ended_by, now)
    IN /\ invoked < MaxStoreCalls
       /\ invoked' = invoked + 1
       /\ SetStore(res.db)
       /\ lastCall' = [NoCall EXCEPT !.op = "end", !.user_id = user_id,
                                     !.value = ended_by, !.clock = now,
                                     !.ret = res.ret]
       /\ UNCHANGED <<suspended_users, connection, inbox, publisher, now, platform, memberRoles, interactions, sweeper, events,
                      restarts, heldBefore>>

StoreGetActive(user_id) ==
    /\ invoked < MaxStoreCalls
    /\ invoked' = invoked + 1
    /\ lastCall' = [NoCall EXCEPT !.op = "get_active", !.user_id = user_id,
                                  !.clock = now,
                                  !.ret = get_active_suspension(DB, user_id)]
    /\ UNCHANGED <<suspended_users, connection, inbox, publisher, now, platform, memberRoles, store, interactions, sweeper,
                   events, restarts, heldBefore>>

StoreGetPreviousRoles(user_id) ==
    /\ invoked < MaxStoreCalls
    /\ invoked' = invoked + 1
    /\ lastCall' = [NoCall EXCEPT !.op = "get_previous_roles",
                                  !.user_id = user_id, !.clock = now,
                                  !.ids = get_previous_roles(DB, user_id)]
    /\ UNCHANGED <<suspended_users, connection, inbox, publisher, now, platform, memberRoles, store, interactions, sweeper,
                   events, restarts, heldBefore>>

\* The read-only calls of the query specification: nothing but lastCall
\* changes.
QueryExpired ==
    /\ lastCall' = [NoCall EXCEPT !.op = "get_expired", !.clock = now,
                                  !.rows = get_expired_suspensions(DB, now)]
    /\ UNCHANGED <<suspended_users, connection, inbox, publisher, now, platform, memberRoles, store, interactions, sweeper,
                   invoked, events, restarts, heldBefore>>

QueryTotalTimeServed(user_id, guild_id) ==
    /\ lastCall' = [NoCall EXCEPT !.op = "get_total_time_served",
                                  !.user_id = user_id, !.guild_id = guild_id,
                                  !.clock = now,
                                  !.value = get_total_time_served(DB, user_id, guild_id)]
    /\ UNCHANGED <<suspended_users, connection, inbox, publisher, now, platform, memberRoles, store, interactions, sweeper,
                   invoked, events, restarts, heldBefore>>

\* TimeRemainingView.time_remaining_button, pressed by user_id: the
\* ephemeral message it sends
time_remaining_button(db, user_id, clock) ==
    LET suspension == get_active_suspension(db, user_id)
        end_time == fromisoformat(suspension.end_time)
        remaining_time == end_time - clock
    IN IF suspension = NoRow THEN [answer |-> "not_incarcerated"]
       ELSE IF ~Parses(suspension.end_time) THEN [answer |-> "unable_to_parse"]
       ELSE IF remaining_time <= 0 THEN [answer |-> "expired_not_processed"]
       ELSE [answer |-> "remaining", label |-> suspension.duration_text,
             parts |-> format_time_duration(remaining_time),
             value |-> end_time]

PressTimeRemaining(user_id) ==
    LET message == time_remaining_button(DB, user_id, now)
    IN /\ lastCall' =
             IF message.answer = "remaining"
             THEN [NoCall EXCEPT !.op = "time_remaining", !.user_id = user_id,
                                 !.clock = now, !.answer = message.answer,
                                 !.label = message.label, !.parts = message.parts,
                                 !.value = message.value]
             ELSE [NoCall EXCEPT !.op = "time_remaining", !.user_id = user_id,
                                 !.clock = now, !.answer = message.answer]
       /\ UNCHANGED <<suspended_users, connection, inbox, publisher, now, platform, memberRoles, store, interactions, sweeper,
                      invoked, events, restarts, heldBefore>>

Convert(duration) ==
    /\ lastCall' = [NoCall EXCEPT !.op = "convert", !.arg = duration,
                                  !.clock = now,
                                  !.value = convert_duration_to_seconds(duration)]
    /\ UNCHANGED <<suspended_users, connection, inbox, publisher, now, platform, memberRoles, store, interactions, sweeper,
                   invoked, events, restarts, heldBefore>>

\* a direct call of format_time_duration
Format(seconds) ==
    /\ lastCall' = [NoCall EXCEPT !.op = "format", !.value = seconds,
                                  !.clock = now,
                                  !.parts = format_time_duration(seconds)]
    /\ UNCHANGED <<suspended_users, connection, inbox, publisher, now, platform, memberRoles, store,
                   interactions, sweeper, invoked, events, restarts, heldBefore>>

(***************************************************************************)
(* A store write, statement by statement.  add_suspension and              *)
(* end_suspension open a connection, execute three statements on it and    *)
(* call conn.commit() once, after the last one.  sqlite3 opens a           *)
(* transaction before the first INSERT or UPDATE; what a statement wrote   *)
(* is in the database file for other connections, and for the process      *)
(* after a restart, only once the transaction is committed.                *)
(***************************************************************************)
\* the tables the three cursor.execute calls write, in the order of the code
Statements == <<"suspensions", "suspension_logs", "criminal_records">>

NoConnection ==
    [pc |-> "closed", op |-> "none", user_id |-> None, done |-> 0,
     after |-> [s |-> {}, l |-> <<>>, r |-> <<>>]]

\* the tables as the connection sees them after its first k statements
Executed(db, after, k) ==
    [s |-> IF k >= 1 THEN after.s ELSE db.s,
     l |-> IF k >= 2 THEN after.l ELSE db.l,
     r |-> IF k >= 3 THEN after.r ELSE db.r]

\* faulty variant: a connection in autocommit mode, every statement is in
\* the file as soon as it has run
OnDisk_Autocommit(db, after, k) == Executed(db, after, k)

\* the database file while the transaction is open with k statements run
OnDisk(db, after, k) == db

BeginCreate(user_id, suspended_by, duration, previous_roles) ==
    /\ connection.pc # "open"
    /\ invoked < MaxStoreCalls
    /\ invoked' = invoked + 1
    /\ connection' = [pc |-> "open", op |-> "create", user_id |-> user_id,
                      done |-> 0,
                      after |-> add_suspension(DB, user_id, Guild, suspended_by,
                                   convert_duration_to_seconds(duration),
                                   duration, previous_roles,
                                   "No reason provided", now)]
    /\ lastCall' = [NoCall EXCEPT !.op = "create", !.user_id = user_id,
                                  !.guild_id = Guild, !.arg = duration,
                                  !.roles = previous_roles, !.clock = now,
                                  !.value = convert_duration_to_seconds(duration)]
    /\ UNCHANGED <<suspended_users, inbox, publisher, now, platform, memberRoles, store,
                   interactions, sweeper, events, restarts, heldBefore>>

\* without an active row the method closes the connection and returns
BeginEnd(user_id, ended_by) ==
    LET res == end_suspension(DB, user_id, ended_by, now)
    IN /\ connection.pc # "open"
       /\ invoked < MaxStoreCalls
       /\ invoked' = invoked + 1
       /\ connection' = IF res.ret = NoRow THEN NoConnection
                        ELSE [pc |-> "open", op |-> "end", user_id |-> user_id,
                              done |-> 0, after |-> res.db]
       /\ lastCall' = [NoCall EXCEPT !.op = "end", !.user_id = user_id,
                                     !.value = ended_by, !.clock = now,
                                     !.ret = res.ret]
       /\ UNCHANGED <<suspended_users, inbox, publisher, now, platform, memberRoles, store,
                      interactions, sweeper, events, restarts, heldBefore>>

\* one cursor.execute
Execute ==
    /\ connection.pc = "open"
    /\ connection.done < Len(Statements)
    /\ connection' = [connection EXCEPT !.done = @ + 1]
    /\ SetStore(OnDisk(DB, connection.after, connection.done + 1))
    /\ UNCHANGED <<suspended_users, inbox, publisher, now, platform, memberRoles, interactions,
                   sweeper, counters, heldBefore, lastCall>>

\* conn.commit() and conn.close()
Commit ==
    /\ connection.pc = "open"
    /\ connection.done = Len(Statements)
    /\ SetStore(connection.after)
    /\ connection' = NoConnection
    /\ UNCHANGED <<suspended_users, inbox, publisher, now, platform, memberRoles, interactions,
                   sweeper, counters, heldBefore, lastCall>>

(***************************************************************************)
(* The earlier revision, OM-JailBot/om_jailbot.py: no database.  The       *)
(* dictionary suspended_users holds the roles of each jailed user, and the *)
(* coroutine of /jail itself sleeps for the sentence and then releases.    *)
(* Its coroutines use the slots of interactions, with program counters of  *)
(* their own.                                                              *)
(***************************************************************************)
Earlier_SUSPENSION_TIME_OPTIONS ==
    {"5 minutes", "12 hours", "1 day", "3 days", "7 days", "30 days"}

Earlier_convert_duration_to_seconds(duration) ==
    IF duration = "5 minutes" THEN 5 * 60
    ELSE IF duration = "12 hours" THEN 12 * 3600
    ELSE IF duration = "1 day" THEN 24 * 3600
    ELSE IF duration = "3 days" THEN 3 * 24 * 3600
    ELSE IF duration = "7 days" THEN 7 * 24 * 3600
    ELSE IF duration = "30 days" THEN 30 * 24 * 3600
    ELSE -1

\* suspended_users[key] = value
Put(dict, key, value) ==
    [k \in DOMAIN dict \cup {key} |-> IF k = key THEN value ELSE dict[k]]

\* suspended_users.pop(key, None): the dictionary without the key
Pop(dict, key) == [k \in DOMAIN dict \ {key} |-> dict[k]]

\* /jail is received from a caller the role check lets through; suspend()
\* runs to its first await, interaction.response.defer
EarlierJailInvoke(slot, member, duration) ==
    /\ CanInvoke(slot, member)
    /\ invoked' = invoked + 1
    /\ interactions' = [interactions EXCEPT ![slot] =
          [IdleInteraction EXCEPT !.pc = "earlier_jail_defer", !.kind = "jail",
                                  !.user = Moderator, !.member = member,
                                  !.duration = duration]]
    /\ UNCHANGED <<suspended_users, connection, inbox, publisher, now, platform,
                   memberRoles, store, sweeper, events, restarts, heldBefore,
                   lastCall>>

\* the checks of suspend up to the await of member.remove_roles
EarlierJailCheck(slot) ==
    LET it == interactions[slot]
        current_roles == FromSecond(member_roles(it.member))
        suspend_role == get_role(SUSPENDED_ROLE_ID)
        duration_seconds == Earlier_convert_duration_to_seconds(it.duration)
    IN /\ it.pc = "earlier_jail_defer"
       /\ interactions' = [interactions EXCEPT ![slot] =
             IF it.member \in DOMAIN suspended_users
                THEN Finished(it, "already_jailed")
             ELSE IF suspend_role = None THEN Finished(it, "role_not_found")
             ELSE IF duration_seconds = -1 THEN Finished(it, "invalid_duration")
             ELSE [it EXCEPT !.current_roles = current_roles,
                             !.pc = IF current_roles = <<>> THEN "earlier_jail_add"
                                    ELSE "earlier_jail_remove"]]
       /\ UNCHANGED <<suspended_users, connection, inbox, publisher, now, platform,
                      memberRoles, store, sweeper, counters, heldBefore, lastCall>>

\* member.remove_roles(*current_roles) returns or raises
EarlierJailRemoveDone(slot, outcome) ==
    LET it == interactions[slot]
    IN /\ it.pc = "earlier_jail_remove"
       /\ Possible(outcome, it.member, Range(it.current_roles))
       /\ IF outcome = "ok"
          THEN /\ memberRoles' = [memberRoles EXCEPT ![it.member] =
                                     @ \ Range(it.current_roles)]
               /\ interactions' = [interactions EXCEPT ![slot].pc = "earlier_jail_add"]
          ELSE /\ interactions' = [interactions EXCEPT ![slot] =
                                     Finished(it, ErrorResult(outcome))]
               /\ UNCHANGED memberRoles
       /\ UNCHANGED <<suspended_users, connection, inbox, publisher, now, platform,
                      store, sweeper, counters, heldBefore, lastCall>>

\* member.add_roles(suspend_role) returns or raises
EarlierJailAddDone(slot, outcome) ==
    LET it == interactions[slot]
    IN /\ it.pc = "earlier_jail_add"
       /\ Possible(outcome, it.member, {SUSPENDED_ROLE_ID})
       /\ IF outcome = "ok"
          THEN /\ memberRoles' = [memberRoles EXCEPT ![it.member] =
                                     @ \cup {SUSPENDED_ROLE_ID}]
               /\ interactions' = [interactions EXCEPT ![slot].pc = "earlier_jail_notify"]
          ELSE /\ interactions' = [interactions EXCEPT ![slot] =
                                     Finished(it, ErrorResult(outcome))]
               /\ UNCHANGED memberRoles
       /\ UNCHANGED <<suspended_users, connection, inbox, publisher, now, platform,
                      store, sweeper, counters, heldBefore, lastCall>>

\* the two embeds are sent, the entry is stored and the coroutine goes to
\* asyncio.sleep(duration_seconds); or a send raises HTTPException
EarlierJailNotified(slot, sent) ==
    LET it == interactions[slot]
    IN /\ it.pc = "earlier_jail_notify"
       /\ IF sent
          THEN /\ suspended_users' = Put(suspended_users, it.member, it.current_roles)
               /\ interactions' = [interactions EXCEPT ![slot] =
                     [it EXCEPT !.pc = "earlier_sleep",
                                !.until = now + Earlier_convert_duration_to_seconds(it.duration)]]
          ELSE /\ interactions' = [interactions EXCEPT ![slot] =
                                     Finished(it, "http_error")]
               /\ UNCHANGED suspended_users
       /\ UNCHANGED <<connection, inbox, publisher, now, platform, memberRoles,
                      store, sweeper, counters, heldBefore, lastCall>>

\* asyncio.sleep returns: the timed release begins with the await of
\* member.remove_roles(suspend_role)
EarlierJailSlept(slot) ==
    LET it == interactions[slot]
    IN /\ it.pc = "earlier_sleep"
       /\ now >= it.until
       /\ interactions' = [interactions EXCEPT ![slot].pc = "earlier_release_remove"]
       /\ UNCHANGED <<suspended_users, connection, inbox, publisher, now, platform,
                      memberRoles, store, sweeper, counters, heldBefore, lastCall>>

\* member.remove_roles(suspend_role) of the timed release returns or raises
EarlierReleaseRemoveDone(slot, outcome) ==
    LET it == interactions[slot]
    IN /\ it.pc = "earlier_release_remove"
       /\ Possible(outcome, it.member, {SUSPENDED_ROLE_ID})
       /\ IF outcome = "ok"
          THEN /\ memberRoles' = [memberRoles EXCEPT ![it.member] =
                                     @ \ {SUSPENDED_ROLE_ID}]
               /\ interactions' = [interactions EXCEPT ![slot].pc =
                     IF it.current_roles = <<>> THEN "earlier_release_notify"
                     ELSE "earlier_release_add"]
          ELSE /\ interactions' = [interactions EXCEPT ![slot] =
                                     Finished(it, ErrorResult(outcome))]
               /\ UNCHANGED memberRoles
       /\ UNCHANGED <<suspended_users, connection, inbox, publisher, now, platform,
                      store, sweeper, counters, heldBefore, lastCall>>

\* member.add_roles(*current_roles) of the timed release returns or raises
EarlierReleaseAddDone(slot, outcome) ==
    LET it == interactions[slot]
    IN /\ it.pc = "earlier_release_add"
       /\ Possible(outcome, it.member, Range(it.current_roles))
       /\ IF outcome = "ok"
          THEN /\ memberRoles' = [memberRoles EXCEPT ![it.member] =
                                     @ \cup Range(it.current_roles)]
               /\ interactions' = [interactions EXCEPT ![slot].pc = "earlier_release_notify"]
          ELSE /\ interactions' = [interactions EXCEPT ![slot] =
                                     Finished(it, ErrorResult(outcome))]
               /\ UNCHANGED memberRoles
       /\ UNCHANGED <<suspended_users, connection, inbox, publisher, now, platform,
                      store, sweeper, counters, heldBefore, lastCall>>

\* the two embeds of the timed release are sent and the entry of the user
\* is popped; or a send raises HTTPException and the entry stays
EarlierReleaseNotified(slot, sent) ==
    LET it == interactions[slot]
    IN /\ it.pc = "earlier_release_notify"
       /\ suspended_users' = IF sent THEN Pop(suspended_users, it.member)
                             ELSE suspended_users
       /\ interactions' = [interactions EXCEPT ![slot] =
             Finished(it, IF sent THEN "ok" ELSE "http_error")]
       /\ UNCHANGED <<connection, inbox, publisher, now, platform, memberRoles,
                      store, sweeper, counters, heldBefore, lastCall>>

\* /unjail is received; unsuspend() runs to interaction.response.defer
EarlierUnjailInvoke(slot, member) ==
    /\ CanInvoke(slot, member)
    /\ invoked' = invoked + 1
    /\ interactions' = [interactions EXCEPT ![slot] =
          [IdleInteraction EXCEPT !.pc = "earlier_unjail_defer", !.kind = "unjail",
                                  !.user = Moderator, !.member = member]]
    /\ UNCHANGED <<suspended_users, connection, inbox, publisher, now, platform,
                   memberRoles, store, sweeper, events, restarts, heldBefore,
                   lastCall>>

\* the checks of unsuspend up to the await of member.remove_roles
EarlierUnjailCheck(slot) ==
    LET it == interactions[slot]
    IN /\ it.pc = "earlier_unjail_defer"
       /\ interactions' = [interactions EXCEPT ![slot] =
             IF it.member \notin DOMAIN suspended_users
                THEN Finished(it, "not_jailed")
             ELSE IF get_role(SUSPENDED_ROLE_ID) = None
                THEN Finished(it, "role_not_found")
             ELSE [it EXCEPT !.pc = "earlier_unjail_remove"]]
       /\ UNCHANGED <<suspended_users, connection, inbox, publisher, now, platform,
                      memberRoles, store, sweeper, counters, heldBefore, lastCall>>

\* member.remove_roles(suspend_role) returns, suspended_users.pop(member.id)
\* takes the entry (KeyError if it has gone meanwhile) and add_roles is
\* awaited; or remove_roles raises.  A sleeping /jail coroutine of the same
\* user is not cancelled; the flag unjailed on it is history, not a variable
\* of the program: it records that the user it jailed was released by hand.
EarlierUnjailRemoveDone(slot, outcome) ==
    LET it == interactions[slot]
        has == it.member \in DOMAIN suspended_users
        mine == [it EXCEPT !.previous_roles = IF has THEN suspended_users[it.member]
                                              ELSE <<>>,
                           !.pc = IF has /\ suspended_users[it.member] # <<>>
                                  THEN "earlier_unjail_add"
                                  ELSE "earlier_unjail_notify"]
    IN /\ it.pc = "earlier_unjail_remove"
       /\ Possible(outcome, it.member, {SUSPENDED_ROLE_ID})
       /\ IF outcome = "ok"
          THEN /\ memberRoles' = [memberRoles EXCEPT ![it.member] =
                                     @ \ {SUSPENDED_ROLE_ID}]
               /\ suspended_users' = Pop(suspended_users, it.member)
               /\ interactions' = [s \in Slots |->
                     IF s = slot
                     THEN (IF has THEN mine ELSE Finished(it, "key_error"))
                     ELSE IF /\ has
                             /\ interactions[s].pc = "earlier_sleep"
                             /\ interactions[s].member = it.member
                     THEN [interactions[s] EXCEPT !.unjailed = TRUE]
                     ELSE interactions[s]]
          ELSE /\ interactions' = [interactions EXCEPT ![slot] =
                                     Finished(it, ErrorResult(outcome))]
               /\ UNCHANGED <<memberRoles, suspended_users>>
       /\ UNCHANGED <<connection, inbox, publisher, now, platform, store, sweeper,
                      counters, heldBefore, lastCall>>

\* member.add_roles(*previous_roles) returns or raises
EarlierUnjailAddDone(slot, outcome) ==
    LET it == interactions[slot]
    IN /\ it.pc = "earlier_unjail_add"
       /\ Possible(outcome, it.member, Range(it.previous_roles))
       /\ IF outcome = "ok"
          THEN /\ memberRoles' = [memberRoles EXCEPT ![it.member] =
                                     @ \cup Range(it.previous_roles)]
               /\ interactions' = [interactions EXCEPT ![slot].pc = "earlier_unjail_notify"]
          ELSE /\ interactions' = [interactions EXCEPT ![slot] =
                                     Finished(it, ErrorResult(outcome))]
               /\ UNCHANGED memberRoles
       /\ UNCHANGED <<suspended_users, connection, inbox, publisher, now, platform,
                      store, sweeper, counters, heldBefore, lastCall>>

\* the two embeds of the release are sent, or a send raises HTTPException
EarlierUnjailNotified(slot, sent) ==
    LET it == interactions[slot]
    IN /\ it.pc = "earlier_unjail_notify"
       /\ interactions' = [interactions EXCEPT ![slot] =
             Finished(it, IF sent THEN "ok" ELSE "http_error")]
       /\ UNCHANGED <<suspended_users, connection, inbox, publisher, now, platform,
                      memberRoles, store, sweeper, counters, heldBefore, lastCall>>

\* a direct call of the earlier revision's resolver
EarlierConvert(duration) ==
    /\ lastCall' = [NoCall EXCEPT !.op = "earlier_convert", !.arg = duration,
                                  !.clock = now,
                                  !.value = Earlier_convert_duration_to_seconds(duration)]
    /\ UNCHANGED <<suspended_users, connection, inbox, publisher, now, platform,
                   memberRoles, store, interactions, sweeper, invoked, events,
                   restarts, heldBefore>>

(***************************************************************************)
(* Initial states.                                                         *)
(***************************************************************************)
\* Nothing has been published: no row in sticky_messages, no message of
\* the bot in the channel.
Unpublished ==
    /\ court_channel = {}
    /\ sticky_messages = None
    /\ refreshers = [p \in Refreshers |-> NoRefresh]
    /\ refreshes = 0
    /\ inbox = <<>>
    /\ connection = NoConnection

Fresh ==
    /\ Unpublished
    /\ suspended_users = <<>>
    /\ now = 0
    /\ guilds = {Guild}
    /\ members = Users
    /\ guildRoles = RoleIds
    /\ interactions = [slot \in Slots |-> IdleInteraction]
    /\ sweeper = NoTasks
    /\ invoked = 0
    /\ events = 0
    /\ restarts = 0
    /\ lastCall = NoCall

EmptyStore ==
    /\ suspensions = {}
    /\ suspension_logs = <<>>
    /\ criminal_records = <<>>

\* A database an earlier version left behind: user 2 is jailed under a row
\* whose end_time is not ISO text.
LegacyStore ==
    LET old == add_suspension([s |-> {}, l |-> <<>>, r |-> <<>>], 2, Guild,
                   Moderator, 3600, "1 hour", <<StaffRole>>, "No reason provided", 0)
    IN /\ suspensions = {[r EXCEPT !.end_time = BadText] : r \in old.s}
       /\ suspension_logs = old.l
       /\ criminal_records = [i \in 1..Len(old.r) |->
                                 [old.r[i] EXCEPT !.end_time = BadText]]

Init ==
    /\ Fresh
    /\ EmptyStore
    /\ memberRoles = [u \in Users |-> {StaffRole}]
    /\ heldBefore = [u \in Users |-> {}]

(***************************************************************************)
(* Next-state relations.                                                   *)
(***************************************************************************)
Invocations(users, callers, durations) ==
    \E slot \in Slots, caller \in callers, member \in users :
        \/ \E duration \in durations : JailInvoke(slot, caller, member, duration)
        \/ UnjailInvoke(slot, caller, member)

JailSteps(slot) ==
    \/ JailCheck(slot)
    \/ \E outcome \in RoleCallOutcomes : JailRemoveDone(slot, outcome)
    \/ \E outcome \in RoleCallOutcomes : JailAddDone(slot, outcome)
    \/ \E sent \in BOOLEAN : JailNotified(slot, sent)
    \/ JailRefreshed(slot)

UnjailSteps(slot) ==
    \/ UnjailCheck(slot)
    \/ \E outcome \in RoleCallOutcomes : UnjailRemoveDone(slot, outcome)
    \/ \E outcome \in RoleCallOutcomes : UnjailAddDone(slot, outcome)
    \/ \E sent \in BOOLEAN : UnjailNotified(slot, sent)
    \/ UnjailRefreshed(slot)

CommandSteps == \E slot \in Slots : JailSteps(slot) \/ UnjailSteps(slot)

SweepSteps(t) ==
    \/ \E outcome \in RoleCallOutcomes : SweepRemoveDone(t, outcome)
    \/ \E outcome \in RoleCallOutcomes : SweepAddDone(t, outcome)
    \/ SweepLogDone(t)
    \/ SweepRefreshed(t)

Sweep(t) == OnReady(t) \/ SweepWake(t) \/ SweepTick(t) \/ SweepSteps(t)

Environment(users) ==
    \/ Tick
    \/ \E user_id \in users : MemberLeaves(user_id)
    \/ \E role_id \in RoleIds : RoleDeleted(role_id)
    \/ BotRemoved

\* Commands about user 1, interleaved freely with each other, with the
\* sweeper and with the platform; on_ready fires once per process.
Next ==
    \/ Invocations({1}, Callers, {"1 hour"})
    \/ CommandSteps
    \/ Sweep(1)
    \/ Environment({1})

Spec == Init /\ [][Next]_vars

\* The same, with process restarts, started from an empty or a legacy
\* database.  The event loop runs every task that is ready, so the
\* sweeper's steps are weakly fair.
InitLive ==
    /\ Fresh
    /\ \/ EmptyStore /\ memberRoles = [u \in Users |-> {StaffRole}]
       \/ LegacyStore
          /\ memberRoles = [u \in Users |-> IF u = 2 THEN {SUSPENDED_ROLE_ID}
                                                ELSE {StaffRole}]
    /\ heldBefore = [u \in Users |-> {}]

NextLive == Next \/ Restart

SpecLive == InitLive /\ [][NextLive]_vars /\ WF_vars(Sweep(1))

\* The same as Next, with on_ready firing again in the running process.
NextReady == Next \/ Sweep(2)

SpecReady == Init /\ [][NextReady]_vars

\* Both users were jailed for one hour at time 0, each holding StaffRole
\* before; the commands have returned.
BothJailed ==
    LET one == add_suspension([s |-> {}, l |-> <<>>, r |-> <<>>], 1, Guild, Moderator, 3600, "1 hour", <<StaffRole>>, "No reason provided", 0)
        two == add_suspension(one, 2, Guild, Moderator, 3600, "1 hour", <<StaffRole>>, "No reason provided", 0)
    IN /\ suspensions = two.s
       /\ suspension_logs = two.l
       /\ criminal_records = two.r
       /\ memberRoles = [u \in Users |-> {SUSPENDED_ROLE_ID}]
       /\ heldBefore = [u \in Users |-> {StaffRole}]

InitSweep == Fresh /\ BothJailed

\* The sweeper working through a list of two, with /unjail of either user
\* (one at a time) and platform events about either user in between.
NextSweep ==
    \/ \E member \in Users : UnjailInvoke(1, Moderator, member)
    \/ UnjailSteps(1)
    \/ Sweep(1)
    \/ Environment(Users)

SpecSweep == InitSweep /\ [][NextSweep]_vars

\* The sweeper working through a list of two while user 2 is released by
\* /unjail and jailed again by /jail.
NextRejail ==
    \/ UnjailInvoke(1, Moderator, 2)
    \/ UnjailSteps(1)
    \/ JailInvoke(2, Moderator, 2, "1 hour")
    \/ JailSteps(2)
    \/ Sweep(1)
    \/ Tick

SpecRejail == InitSweep /\ [][NextRejail]_vars

\* One operation at a time: a command is invoked, or a sweep tick begins,
\* only when no command is running and the sweeper sleeps.
Quiet ==
    /\ \A slot \in Slots : interactions[slot].pc \in {"idle", "done"}
    /\ \A t \in Tasks : sweeper[t].pc \in {"unstarted", "sleep", "ready"}

InitSeq ==
    /\ Fresh
    /\ EmptyStore
    /\ memberRoles \in [Users -> SUBSET RoleIds]
    /\ memberRoles[2] = {}
    /\ heldBefore = [u \in Users |-> {}]

NextSeq ==
    \/ Quiet /\ Invocations({1}, {Moderator}, {"1 hour", "12 hours"})
    \/ Quiet /\ SweepTick(1)
    \/ CommandSteps
    \/ OnReady(1)
    \/ SweepWake(1)
    \/ SweepSteps(1)
    \/ Environment({1})

SpecSeq == InitSeq /\ [][NextSeq]_vars

\* The store alone, called directly.
NextStore ==
    \/ \E user_id \in Users, duration \in {"1 hour", "12 hours"},
          previous_roles \in {<<>>, <<StaffRole>>, <<OtherRole, StaffRole>>} :
            StoreCreate(user_id, Moderator, duration, previous_roles)
    \/ \E user_id \in Users, ended_by \in {None, Moderator} :
            StoreEnd(user_id, ended_by)
    \/ \E user_id \in Users : StoreGetActive(user_id)
    \/ \E user_id \in Users : StoreGetPreviousRoles(user_id)
    \/ Tick

InitStore ==
    /\ Fresh
    /\ EmptyStore
    /\ memberRoles = [u \in Users |-> {}]
    /\ heldBefore = [u \in Users |-> {}]

SpecStore == InitStore /\ [][NextStore]_vars

\* The two writers of the store run statement by statement, and the process
\* can die between any two statements.
NextWrite ==
    \/ \E user_id \in Users, previous_roles \in {<<>>, <<StaffRole>>} :
            BeginCreate(user_id, Moderator, "1 hour", previous_roles)
    \/ \E user_id \in Users, ended_by \in {None, Moderator} :
            BeginEnd(user_id, ended_by)
    \/ Execute
    \/ Commit
    \/ Restart
    \/ Tick

SpecWrite == InitStore /\ [][NextWrite]_vars

\* /jail of user 1 alone, with durations the table has and has not, on
\* either slot, among platform events.
NextJail ==
    \/ \E slot \in Slots, duration \in {"1 hour", "2 days"} :
          JailInvoke(slot, Moderator, 1, duration)
    \/ \E slot \in Slots : JailSteps(slot)
    \/ Environment({1})

SpecJail == Init /\ [][NextJail]_vars

\* The publisher: calls of send_sticky_message interleaved at their awaits,
\* with the tracked message deleted by hand or the bot removed in between.
\* a person posts a message in a channel the bot sees
MessagePosted(channel_id) ==
    /\ Len(SelectSeq(inbox, LAMBDA message : ~message.author_bot)) < MaxMessages
    /\ inbox' = Append(inbox, Delivered(FALSE, channel_id))
    /\ UNCHANGED <<suspended_users, connection, publisher, now, platform, memberRoles, store,
                   interactions, sweeper, counters, heldBefore, lastCall>>

\* the messages on_message has not run for yet
Unhandled == {k \in 1..Len(inbox) : ~inbox[k].handled}

\* faulty variant: the author is not looked at
on_message_AnyAuthor(p) ==
    /\ Unhandled # {}
    /\ LET k == CHOOSE k \in Unhandled : \A j \in Unhandled : k <= j
           message == inbox[k]
       IN /\ inbox' = [inbox EXCEPT ![k].handled = TRUE]
          /\ IF message.channel = COURT_RECORD_CHANNEL_ID
             THEN /\ refreshers[p].pc = "idle"
                  /\ refreshers' = [refreshers EXCEPT ![p].pc = "sleep"]
             ELSE UNCHANGED refreshers
    /\ UNCHANGED <<court_channel, sticky_messages, refreshes>>
    /\ UNCHANGED <<suspended_users, connection, now, platform, memberRoles, store, interactions,
                   sweeper, counters, heldBefore, lastCall>>

\* on_message up to its first await: a message of a bot is dropped; a
\* message in the court record channel takes the handler to
\* asyncio.sleep(1); bot.process_commands finds no prefix command
on_message(p) ==
    /\ Unhandled # {}
    /\ LET k == CHOOSE k \in Unhandled : \A j \in Unhandled : k <= j
           message == inbox[k]
       IN /\ inbox' = [inbox EXCEPT ![k].handled = TRUE]
          /\ IF message.author_bot THEN UNCHANGED refreshers
             ELSE IF message.channel = COURT_RECORD_CHANNEL_ID
             THEN /\ refreshers[p].pc = "idle"
                  /\ refreshers' = [refreshers EXCEPT ![p].pc = "sleep"]
             ELSE UNCHANGED refreshers
    /\ UNCHANGED <<court_channel, sticky_messages, refreshes>>
    /\ UNCHANGED <<suspended_users, connection, now, platform, memberRoles, store, interactions,
                   sweeper, counters, heldBefore, lastCall>>

\* asyncio.sleep(1) returns and on_message calls send_sticky_message, which
\* runs up to the await of fetch_message or of send
MessageSlept(p) ==
    /\ refreshers[p].pc = "sleep"
    /\ refreshes < MaxRefreshes
    /\ refreshes' = refreshes + 1
    /\ refreshers' = [refreshers EXCEPT ![p] =
          IF Guild \notin guilds THEN NoRefresh
          ELSE IF sticky_messages # None
          THEN [NoRefresh EXCEPT !.pc = "fetch",
                                 !.stored_message_id = sticky_messages]
          ELSE [NoRefresh EXCEPT !.pc = "send"]]
    /\ UNCHANGED <<court_channel, sticky_messages>>
    /\ UNCHANGED <<suspended_users, connection, inbox, now, platform, memberRoles, store, interactions,
                   sweeper, counters, heldBefore, lastCall>>

MessageIds == {FirstMessageId + k : k \in 0..(MaxRefreshes - 1)}

NextPublish ==
    \/ \E p \in Refreshers : RefreshBegin(p)
    \/ \E p \in Refreshers, outcome \in FetchOutcomes : RefreshFetched(p, outcome)
    \/ \E p \in Refreshers, outcome \in FetchOutcomes : RefreshDeleted(p, outcome)
    \/ \E p \in Refreshers, outcome \in {"ok", "error"} : RefreshSent(p, outcome)
    \/ \E message_id \in MessageIds : MessageRemoved(message_id)
    \/ BotRemoved

SpecPublish == Init /\ [][NextPublish]_vars

\* The publisher driven by on_message alone: people post in the court
\* record channel and in the log channel, and every message the publisher
\* sends comes back as an event.
NextMessages ==
    \/ \E channel_id \in {COURT_RECORD_CHANNEL_ID, LOG_CHANNEL_ID} :
            MessagePosted(channel_id)
    \/ \E p \in Refreshers : on_message(p)
    \/ \E p \in Refreshers : MessageSlept(p)
    \/ \E p \in Refreshers, outcome \in FetchOutcomes : RefreshFetched(p, outcome)
    \/ \E p \in Refreshers, outcome \in FetchOutcomes : RefreshDeleted(p, outcome)
    \/ \E p \in Refreshers, outcome \in {"ok", "error"} : RefreshSent(p, outcome)
    \/ \E message_id \in MessageIds : MessageRemoved(message_id)

SpecMessages == Init /\ [][NextMessages]_vars

EarlierJailSteps(slot) ==
    \/ EarlierJailCheck(slot)
    \/ \E outcome \in RoleCallOutcomes : EarlierJailRemoveDone(slot, outcome)
    \/ \E outcome \in RoleCallOutcomes : EarlierJailAddDone(slot, outcome)
    \/ \E sent \in BOOLEAN : EarlierJailNotified(slot, sent)
    \/ EarlierJailSlept(slot)
    \/ \E outcome \in RoleCallOutcomes : EarlierReleaseRemoveDone(slot, outcome)
    \/ \E outcome \in RoleCallOutcomes : EarlierReleaseAddDone(slot, outcome)
    \/ \E sent \in BOOLEAN : EarlierReleaseNotified(slot, sent)

EarlierUnjailSteps(slot) ==
    \/ EarlierUnjailCheck(slot)
    \/ \E outcome \in RoleCallOutcomes : EarlierUnjailRemoveDone(slot, outcome)
    \/ \E outcome \in RoleCallOutcomes : EarlierUnjailAddDone(slot, outcome)
    \/ \E sent \in BOOLEAN : EarlierUnjailNotified(slot, sent)

\* The earlier revision with user 1 jailed for five minutes at time 0 by
\* the coroutine of slot 1, which sleeps; /unjail and /jail of user 1
\* arrive on slot 2 and the clock passes the end of the sentence.
InitEarlier ==
    /\ Unpublished
    /\ EmptyStore
    /\ now = 0
    /\ guilds = {Guild}
    /\ members = Users
    /\ guildRoles = RoleIds
    /\ sweeper = NoTasks
    /\ invoked = 0
    /\ events = 0
    /\ restarts = 0
    /\ lastCall = NoCall
    /\ memberRoles = [u \in Users |-> IF u = 1 THEN {SUSPENDED_ROLE_ID}
                                      ELSE {StaffRole}]
    /\ heldBefore = [u \in Users |-> {}]
    /\ suspended_users = Put(<<>>, 1, <<StaffRole>>)
    /\ interactions = [slot \in Slots |->
          IF slot = 1
          THEN [IdleInteraction EXCEPT
                   !.pc = "earlier_sleep", !.kind = "jail", !.user = Moderator,
                   !.member = 1, !.duration = "5 minutes",
                   !.current_roles = <<StaffRole>>,
                   !.until = Earlier_convert_duration_to_seconds("5 minutes")]
          ELSE IdleInteraction]

NextEarlier ==
    \/ EarlierJailInvoke(2, 1, "5 minutes")
    \/ EarlierUnjailInvoke(2, 1)
    \/ \E slot \in Slots : EarlierJailSteps(slot)
    \/ EarlierUnjailSteps(2)
    \/ Tick

SpecEarlier == InitEarlier /\ [][NextEarlier]_vars

\* User 1 was jailed for one hour at time 0 holding StaffRole and
\* OtherRole; the release comes by /unjail or by the sweep, and any role
\* of the guild may be deleted before or during it.
InitRelease ==
    LET one == add_suspension([s |-> {}, l |-> <<>>, r |-> <<>>], 1, Guild, Moderator, 3600, "1 hour", <<StaffRole, OtherRole>>, "No reason provided", 0)
    IN /\ Unpublished
       /\ suspended_users = <<>>
       /\ now = 0
       /\ guilds = {Guild}
       /\ members = Users
       /\ guildRoles = RoleIds \cup {OtherRole}
       /\ memberRoles = [u \in Users |-> IF u = 1 THEN {SUSPENDED_ROLE_ID} ELSE {}]
       /\ suspensions = one.s
       /\ suspension_logs = one.l
       /\ criminal_records = one.r
       /\ interactions = [slot \in Slots |-> IdleInteraction]
       /\ sweeper = NoTasks
       /\ invoked = 0
       /\ events = 0
       /\ restarts = 0
       /\ heldBefore = [u \in Users |-> IF u = 1 THEN {StaffRole, OtherRole} ELSE {}]
       /\ lastCall = NoCall

NextRelease ==
    \/ UnjailInvoke(1, Moderator, 1)
    \/ UnjailSteps(1)
    \/ Sweep(1)
    \/ Tick
    \/ MemberLeaves(1)
    \/ \E role_id \in RoleIds \cup {OtherRole} : RoleDeleted(role_id)

SpecRelease == InitRelease /\ [][NextRelease]_vars

\* The read-only queries, over tables drawn from bounded sets: rows and
\* records with every kind of stored text.
DurationInputs ==
    SUSPENSION_TIME_OPTIONS \cup {"5 minutes", "1 hours", "2 days", ""}

StoredTexts == {isoformat(0), isoformat(ClockStep), isoformat(2 * ClockStep),
                NullText, BadText}

\* an end half a minute after the start, and one a day, an hour, a minute
\* and a second after the first clock step
OddTexts == {isoformat(30), isoformat(ClockStep + 90061)}

SomeRows(user_id, end_times) ==
    {{}} \cup
    {{[NoRow EXCEPT !.user_id = user_id, !.guild_id = Guild,
                    !.suspended_by = Moderator, !.start_time = isoformat(0),
                    !.end_time = end_time, !.duration_text = "1 hour",
                    !.is_active = is_active, !.reason = "No reason provided"]} :
        end_time \in end_times, is_active \in {0, 1}}

SomeRecords ==
    {[user_id |-> key[1], guild_id |-> key[2], sentenced_by |-> Moderator,
      start_time |-> start_time, end_time |-> end_time,
      actual_end_time |-> actual_end_time, duration_text |-> "1 hour",
      reason |-> "No reason provided", released_by |-> None,
      release_type |-> "TIME_SERVED"] :
        key \in {<<1, Guild>>, <<2, Guild>>, <<1, OtherGuild>>},
        start_time \in {isoformat(0), isoformat(2 * ClockStep), BadText},
        end_time \in {isoformat(ClockStep), NullText},
        actual_end_time \in {NullText, isoformat(ClockStep),
                              isoformat(3 * ClockStep), BadText}}

InitQuery ==
    /\ Fresh
    /\ memberRoles = [u \in Users |-> {}]
    /\ heldBefore = [u \in Users |-> {}]
    /\ suspension_logs = <<>>
    /\ \/ /\ \E one \in SomeRows(1, (StoredTexts \ {NullText}) \cup OddTexts), two \in SomeRows(2, {isoformat(ClockStep), BadText}) :
                suspensions = one \cup two
          /\ criminal_records = <<>>
       \/ /\ suspensions = {}
          /\ criminal_records \in {<<>>} \cup {<<a>> : a \in SomeRecords}
                                   \cup {<<a, b>> : a, b \in SomeRecords}

NextQuery ==
    \/ QueryExpired
    \/ \E user_id \in Users, guild_id \in {Guild, OtherGuild} :
            QueryTotalTimeServed(user_id, guild_id)
    \/ \E duration \in DurationInputs : Convert(duration)
    \/ \E user_id \in Users : PressTimeRemaining(user_id)
    \/ Tick

SpecQuery == InitQuery /\ [][NextQuery]_vars

\* The helper functions called directly: format_time_duration for spans
\* around every unit's boundary, and the duration resolver of either
\* revision for every choice of either revision and some other texts.
SpanInputs ==
    {d * 86400 + h * 3600 + m * 60 + sec :
        d \in 0..2, h \in {0, 1, 23}, m \in {0, 1, 59}, sec \in {0, 1, 59}}

ChoiceInputs ==
    SUSPENSION_TIME_OPTIONS \cup Earlier_SUSPENSION_TIME_OPTIONS
        \cup {"1 hours", "2 days", ""}

NextHelpers ==
    \/ \E seconds \in SpanInputs : Format(seconds)
    \/ \E duration \in ChoiceInputs : Convert(duration)
    \/ \E duration \in ChoiceInputs : EarlierConvert(duration)
    \/ Tick

SpecHelpers == InitStore /\ [][NextHelpers]_vars


(***************************************************************************)
(* Properties.                                                             *)
(***************************************************************************)
ActiveRows(user_id) ==
    {r \in suspensions : r.user_id = user_id /\ r.is_active = 1}

ActiveWith(user_id, end_time) ==
    \E r \in ActiveRows(user_id) : r.end_time = end_time

\* the end_time texts a row of the model can hold
EndTexts ==
    {isoformat(k * ClockStep) : k \in 1..(MaxClockSteps + 1)} \cup {BadText}

Overdue(end_time) == IsExpired([end_time |-> end_time], now)

LogCount(user_id, actions) ==
    Cardinality({i \in 1..Len(suspension_logs) :
                    /\ suspension_logs[i].user_id = user_id
                    /\ suspension_logs[i].action \in actions})

\* C1: in every reachable state each subject has at most one Suspension
\* with active = true.
C1_AtMostOneActive ==
    \A user_id \in Users : Cardinality(ActiveRows(user_id)) <= 1

\* C1 witness: a subject jailed a second time holds one active row.
C1_Witness ==
    \E user_id \in Users :
        /\ ActiveRows(user_id) # {}
        /\ LogCount(user_id, {"SUSPENDED"}) >= 2

\* C2: with the sweeper scheduled fairly, every Suspension that is active
\* with end_time <= now (or with an end_time that cannot be parsed)
\* eventually becomes inactive.
C2_ExpiredEventuallyInactive ==
    \A user_id \in Users, end_time \in EndTexts :
        (ActiveWith(user_id, end_time) /\ Overdue(end_time))
            ~> ~ActiveWith(user_id, end_time)

\* C3: a restart leaves every active Suspension in the store as it was
\* (same prior_role_set, same end_time), and the sweeper started at startup
\* releases it once its end_time has passed.
C3_RestartKeepsAndReleases ==
    /\ [][restarts' > restarts =>
            \A r \in suspensions : r.is_active = 1 => r \in suspensions']_vars
    /\ \A user_id \in Users, end_time \in EndTexts :
          (restarts > 0 /\ ActiveWith(user_id, end_time) /\ Overdue(end_time))
              ~> ~ActiveWith(user_id, end_time)

\* the role mutations of a release of user_id have all succeeded
Restored(user_id) ==
    \/ \E slot \in Slots :
          /\ interactions[slot].member = user_id
          /\ interactions[slot].pc \in {"unjail_notify", "unjail_refresh"}
    \/ \E t \in Tasks :
          /\ sweeper[t].pc = "log"
          /\ sweeper[t].expired[sweeper[t].i].user_id = user_id

\* C4: for a subject who is still a member and whose roles all still
\* exist, once a release (manual or sweep) of a successful jail has
\* succeeded the subject holds exactly the non-base roles held immediately
\* before that jail.
C4_RolesRestored ==
    \A user_id \in Users :
        (/\ Restored(user_id)
         /\ user_id \in members
         /\ heldBefore[user_id] \subseteq guildRoles)
        => memberRoles[user_id] = heldBefore[user_id]

\* C4 witness: a release has given back a role.
C4_Witness ==
    \E user_id \in Users :
        /\ Restored(user_id)
        /\ user_id \in members
        /\ heldBefore[user_id] \subseteq guildRoles
        /\ heldBefore[user_id] # {}
        /\ LogCount(user_id, {"SUSPENDED"}) >= 1

\* C5: /jail for a subject with an active Suspension is rejected as
\* already jailed and changes nothing: no role mutation is issued, and the
\* suspensions, the audit log and the criminal records stay as they were.
C5_JailOnActiveRejected ==
    [][\A slot \in Slots :
          (/\ interactions[slot].pc = "jail_defer"
           /\ interactions'[slot] # interactions[slot]
           /\ ActiveRows(interactions[slot].member) # {})
          => /\ interactions'[slot].pc = "done"
             /\ interactions'[slot].result = "already_jailed"
             /\ UNCHANGED <<memberRoles, store>>]_vars

\* C5 witness: a /jail was rejected as already jailed.
C5_Witness ==
    \E slot \in Slots :
        /\ interactions[slot].pc = "done"
        /\ interactions[slot].kind = "jail"
        /\ interactions[slot].result = "already_jailed"

\* C6: /unjail for a subject with no active Suspension is rejected as not
\* jailed; no role mutation is issued and no audit entry is appended.
C6_UnjailNotJailedRejected ==
    [][\A slot \in Slots :
          (/\ interactions[slot].pc = "unjail_defer"
           /\ interactions'[slot] # interactions[slot]
           /\ ActiveRows(interactions[slot].member) = {})
          => /\ interactions'[slot].pc = "done"
             /\ interactions'[slot].result = "not_jailed"
             /\ UNCHANGED <<memberRoles, store>>]_vars

\* C6 witness: a /unjail of a subject released earlier was rejected as not
\* jailed.
C6_Witness ==
    \E slot \in Slots :
        /\ interactions[slot].pc = "done"
        /\ interactions[slot].kind = "unjail"
        /\ interactions[slot].result = "not_jailed"
        /\ LogCount(interactions[slot].member, {"RELEASED", "EXPIRED"}) >= 1

\* C7: Store.end called twice in a row for a subject with an active
\* Suspension returns the pre-mutation row the first time and none the
\* second time, and the two calls append exactly one audit entry, RELEASED
\* or EXPIRED.
C7_EndTwice ==
    [][\A user_id \in Users :
          (lastCall'.op = "end" /\ lastCall'.user_id = user_id
           /\ invoked' = invoked + 1)
          => /\ ActiveRows(user_id) # {}
                => /\ lastCall'.ret \in ActiveRows(user_id)
                   /\ Len(suspension_logs') = Len(suspension_logs) + 1
                   /\ suspension_logs'[Len(suspension_logs')].action
                         \in {"RELEASED", "EXPIRED"}
                   /\ suspension_logs'[Len(suspension_logs')].user_id = user_id
             /\ (lastCall.op = "end" /\ lastCall.user_id = user_id
                 /\ lastCall.ret # NoRow)
                => /\ lastCall'.ret = NoRow
                   /\ suspension_logs' = suspension_logs]_vars

\* C7 witness: the second of two Store.end calls in a row has returned none.
C7_Witness ==
    /\ lastCall.op = "end"
    /\ lastCall.ret = NoRow
    /\ Len(suspension_logs) >= 2
    /\ suspension_logs[Len(suspension_logs)].action \in {"RELEASED", "EXPIRED"}
    /\ suspension_logs[Len(suspension_logs)].user_id = lastCall.user_id
    /\ suspension_logs[Len(suspension_logs) - 1].action = "SUSPENDED"

\* C8: when a manual unjail and a sweep release of the same Suspension
\* interleave, only one of the two issues role mutations: they are never
\* both past their check with a role mutation issued.
C8_OneReleasePath ==
    \A slot \in Slots, t \in Tasks :
        ~(/\ interactions[slot].pc \in {"unjail_remove", "unjail_add"}
          /\ sweeper[t].pc \in {"remove", "add"}
          /\ sweeper[t].expired[sweeper[t].i] = interactions[slot].suspension)

\* C9: in /jail the store is written only in the step in which the second
\* role mutation (add the suspended role) succeeds, the first having
\* succeeded before; a /jail whose role mutation fails writes nothing.
C9_PersistAfterRoles ==
    [][\A slot \in Slots :
          (interactions[slot].kind = "jail"
           /\ interactions'[slot] # interactions[slot])
          => /\ ~(UNCHANGED store)
                => /\ interactions[slot].pc = "jail_add"
                   /\ interactions'[slot].pc = "jail_notify"
                   /\ SUSPENDED_ROLE_ID \in memberRoles'[interactions[slot].member]
                   /\ SUSPENDED_ROLE_ID \in guildRoles
             /\ (interactions[slot].pc \in {"jail_remove", "jail_add"}
                 /\ interactions'[slot].result \in {"forbidden", "http_error"})
                => UNCHANGED store]_vars

\* C9 witness: the prior roles were removed, adding the suspended role
\* failed, and no row was written.
C9_Witness ==
    \E slot \in Slots :
        /\ interactions[slot].pc = "done"
        /\ interactions[slot].kind = "jail"
        /\ interactions[slot].result = "forbidden"
        /\ interactions[slot].member \in members
        /\ StaffRole \in guildRoles
        /\ memberRoles[interactions[slot].member] = {}
        /\ suspensions = {}
        /\ suspension_logs = <<>>
        /\ criminal_records = <<>>

\* C10: a role mutation that fails during a release, manual or sweep,
\* leaves the Suspension active.
C10_FailedReleaseStaysActive ==
    [][/\ \A slot \in Slots :
             (/\ interactions[slot].pc \in {"unjail_remove", "unjail_add"}
              /\ interactions'[slot].result \in {"forbidden", "http_error"})
             => UNCHANGED suspensions
       /\ \A t \in Tasks :
             (/\ sweeper[t].pc \in {"remove", "add"}
              /\ sweeper'[t] # sweeper[t]
              /\ ~(sweeper'[t].i = sweeper[t].i /\ sweeper'[t].pc \in {"add", "log"}))
             => UNCHANGED suspensions]_vars

\* a tick of task t is executing: it has read the expired list and has not
\* yet reached asyncio.sleep
InTick(t) == sweeper[t].pc \in {"remove", "add", "log", "refresh"}

\* C13: at most one sweep tick is executing at any time, also when on_ready
\* fires more than once in the life of the process.
C13_OneTickAtATime ==
    Cardinality({t \in Tasks : InTick(t)}) <= 1

(***************************************************************************)
(* One step of a sweeper task seen from outside: which items of the tick's *)
(* list the step went past.                                                *)
(***************************************************************************)
AtItem(sw) == sw.pc \in {"remove", "add", "log"}

\* the list the tick of task t works on
TickList(t) ==
    IF sweeper[t].pc = "ready" THEN get_expired_suspensions(DB, now)
    ELSE sweeper[t].expired

\* task t begins a tick, or leaves the item it was at
Advances(t) ==
    /\ sweeper[t].pc = "ready" \/ AtItem(sweeper[t])
    /\ sweeper'[t] # sweeper[t]
    /\ AtItem(sweeper'[t]) \/ sweeper'[t].pc \in {"sleep", "refresh"}
    /\ \/ sweeper[t].pc = "ready"
       \/ ~AtItem(sweeper'[t])
       \/ sweeper'[t].i > sweeper[t].i

\* the items the step went past without stopping
PassedOver(t) ==
    LET from == IF sweeper[t].pc = "ready" THEN 1 ELSE sweeper[t].i + 1
        to == IF AtItem(sweeper'[t]) THEN sweeper'[t].i - 1
              ELSE Len(TickList(t))
    IN from..to

\* bot.get_guild or guild.get_member finds nothing for the item
LookupFails(row) == row.guild_id \notin guilds \/ row.user_id \notin members

\* a role mutation of the item task t is at has raised
RoleCallFailed(t) == sweeper[t].pc \in {"remove", "add"} /\ Advances(t)

\* C11: within one tick, after a role mutation has failed for one expired
\* subject, or a lookup has found nothing for it, the loop goes on with the
\* rest of the same list: it stops at the next subject whose guild and
\* member resolve, and goes past nobody else.
C11_ErrorsIsolatedPerItem ==
    [][\A t \in Tasks :
          (/\ Advances(t)
           /\ \/ RoleCallFailed(t)
              \/ \E j \in PassedOver(t) : LookupFails(TickList(t)[j]))
          => /\ \A j \in PassedOver(t) : LookupFails(TickList(t)[j])
             /\ AtItem(sweeper'[t]) => sweeper'[t].expired = TickList(t)]_vars

\* C11 witness: the role mutation for the first subject failed (they still
\* hold the suspended role) and the tick is at the second subject.
C11_Witness ==
    \E t \in Tasks :
        /\ AtItem(sweeper[t])
        /\ sweeper[t].i = 2
        /\ LET first == sweeper[t].expired[1].user_id
           IN /\ first \in members
              /\ Guild \in guilds
              /\ SUSPENDED_ROLE_ID \in guildRoles
              /\ SUSPENDED_ROLE_ID \in memberRoles[first]
              /\ ActiveRows(first) = {}

\* C12: a tick ends with one Status Publisher refresh exactly when it has
\* released somebody: every step of a tick that ends a Suspension (appends
\* an EXPIRED entry) leaves the tick's status_updated flag set, or ends the
\* tick at the refresh.
C12_RefreshIffReleased ==
    [][\A t \in Tasks :
          (/\ sweeper'[t] # sweeper[t]
           /\ Len(suspension_logs') > Len(suspension_logs)
           /\ suspension_logs'[Len(suspension_logs')].action = "EXPIRED")
          => \/ sweeper'[t].pc = "refresh"
             \/ AtItem(sweeper'[t]) /\ sweeper'[t].status_updated]_vars

\* C14: the sweeper goes past an expired record whose guild resolves and
\* whose subject is no longer a member without a role mutation: the step
\* leaves the record inactive, logged as EXPIRED with no performer, changes
\* no roles, and never stops at such a record to mutate roles.
C14_GoneMemberClosed ==
    [][\A t \in Tasks :
          Advances(t)
          => /\ \A j \in PassedOver(t) :
                   LET row == TickList(t)[j]
                   IN (row.guild_id \in guilds /\ row.user_id \notin members)
                      => /\ \A r \in suspensions' :
                               r.user_id = row.user_id => r.is_active = 0
                         /\ UNCHANGED memberRoles
                         /\ ActiveRows(row.user_id) # {}
                            => \E k \in (Len(suspension_logs) + 1)..Len(suspension_logs') :
                                  /\ suspension_logs'[k].user_id = row.user_id
                                  /\ suspension_logs'[k].action = "EXPIRED"
                                  /\ suspension_logs'[k].performed_by = None
             /\ AtItem(sweeper'[t])
                => sweeper'[t].expired[sweeper'[t].i].user_id \in members]_vars

\* C14 witness: user 1 has left, their record was closed as EXPIRED, and
\* the tick has gone on to user 2.
C14_Witness ==
    \E t \in Tasks :
        /\ sweeper[t].pc = "remove"
        /\ sweeper[t].i = 2
        /\ sweeper[t].status_updated
        /\ sweeper[t].expired[1].user_id \notin members
        /\ ActiveRows(sweeper[t].expired[1].user_id) = {}
        /\ Len(suspension_logs) = 3
        /\ suspension_logs[3].action = "EXPIRED"
        /\ suspension_logs[3].performed_by = None
        /\ suspension_logs[3].user_id = sweeper[t].expired[1].user_id

\* the criminal records of a sentence that the sweeper closed
ClosedAsServed(records, user_id, start_time) ==
    {k \in 1..Len(records) :
        /\ records[k].user_id = user_id
        /\ records[k].start_time = start_time
        /\ records[k].actual_end_time # NullText
        /\ records[k].release_type = "TIME_SERVED"}

\* C15: when a tick that began with now past a subject's end_time ends, the
\* subject's Suspension is inactive and exactly one of their criminal
\* records is closed as TIME_SERVED; a tick that begins when the subject
\* has no active Suspension neither stops at the subject nor writes
\* anything about them.
C15_SweptOnceThenNothing ==
    [][\A t \in Tasks :
          /\ (Advances(t) /\ ~AtItem(sweeper'[t]))
             => \A j \in 1..Len(TickList(t)) :
                   LET row == TickList(t)[j]
                   IN /\ row \notin suspensions'
                      /\ Cardinality(ClosedAsServed(criminal_records', row.user_id,
                                                    row.start_time)) = 1
          /\ (Advances(t) /\ sweeper[t].pc = "ready")
             => \A user_id \in Users :
                   ActiveRows(user_id) = {}
                   => /\ \A j \in 1..Len(TickList(t)) :
                            TickList(t)[j].user_id # user_id
                      /\ ActiveRows(user_id)' = {}
                      /\ LogCount(user_id, {"SUSPENDED", "RELEASED", "EXPIRED"})'
                            = LogCount(user_id, {"SUSPENDED", "RELEASED", "EXPIRED"})]_vars

(***************************************************************************)
(* The store's queries and the duration table.                             *)
(***************************************************************************)
\* C16: get_expired_suspensions returns exactly the active rows whose
\* end_time is at or before the clock of the call, together with every
\* active row whose end_time does not parse.
C16_ExpiredExactly ==
    lastCall.op = "get_expired"
    => /\ Range(lastCall.rows) \subseteq suspensions
       /\ \A row \in suspensions :
             row \in Range(lastCall.rows)
             <=> /\ row.is_active = 1
                 /\ \/ row.end_time.kind # "iso"
                    \/ fromisoformat(row.end_time) <= lastCall.clock

C16_Witness ==
    /\ lastCall.op = "get_expired"
    /\ lastCall.clock = ClockStep
    /\ \E i, j \in 1..Len(lastCall.rows) :
          /\ lastCall.rows[i].end_time = isoformat(ClockStep)
          /\ lastCall.rows[j].end_time = BadText

\* C17: convert_duration_to_seconds gives 3600, 43200, 86400, 259200,
\* 604800 and 2592000 for the six labels and -1 for every other input.
C17_DurationTable ==
    lastCall.op = "convert"
    => lastCall.value =
          CASE lastCall.arg = "1 hour" -> 3600
            [] lastCall.arg = "12 hours" -> 43200
            [] lastCall.arg = "1 day" -> 86400
            [] lastCall.arg = "3 days" -> 259200
            [] lastCall.arg = "7 days" -> 604800
            [] lastCall.arg = "30 days" -> 2592000
            [] OTHER -> -1

C17_Witness ==
    /\ lastCall.op = "convert"
    /\ \/ lastCall.arg = "1 hour" /\ lastCall.value = 3600
       \/ lastCall.arg = "5 minutes" /\ lastCall.value = -1

\* C18: get_active_suspension right after add_suspension for the same
\* subject returns an active row whose end_time is start_time plus the
\* duration_seconds that were passed.
C18_CreateThenGetActive ==
    [][(/\ lastCall.op = "create"
        /\ lastCall'.op = "get_active"
        /\ lastCall'.user_id = lastCall.user_id)
       => /\ lastCall'.ret # NoRow
          /\ lastCall'.ret.is_active = 1
          /\ lastCall'.ret.user_id = lastCall.user_id
          /\ fromisoformat(lastCall'.ret.end_time)
               - fromisoformat(lastCall'.ret.start_time) = lastCall.value]_vars

C18_Witness ==
    /\ lastCall.op = "get_active"
    /\ lastCall.ret # NoRow
    /\ lastCall.ret.duration_text = "12 hours"
    /\ lastCall.ret.start_time = isoformat(lastCall.clock)
    /\ fromisoformat(lastCall.ret.end_time)
         - fromisoformat(lastCall.ret.start_time) = 43200

\* C19: whatever list of role ids add_suspension was given, the next
\* get_active_suspension, end_suspension or get_previous_roles for that
\* subject yields the same set of ids.
C19_RolesRoundTrip ==
    [][(/\ lastCall.op = "create"
        /\ lastCall'.op \in {"get_active", "end", "get_previous_roles"}
        /\ lastCall'.user_id = lastCall.user_id)
       => IF lastCall'.op = "get_previous_roles"
          THEN Range(lastCall'.ids) = Range(lastCall.roles)
          ELSE /\ lastCall'.ret # NoRow
               /\ Range(json_loads(lastCall'.ret.previous_roles))
                    = Range(lastCall.roles)]_vars

C19_Witness ==
    /\ lastCall.op = "get_previous_roles"
    /\ Range(lastCall.ids) = {OtherRole, StaffRole}

\* the instant a record's sentence counts up to: actual_end_time when it
\* is set, the scheduled end_time otherwise
EndOf(record) ==
    IF record.actual_end_time # NullText THEN record.actual_end_time
    ELSE record.end_time

RECURSIVE SumOver(_, _)
SumOver(f, indices) ==
    IF indices = {} THEN 0
    ELSE LET k == CHOOSE k \in indices : TRUE
         IN f[k] + SumOver(f, indices \ {k})

\* C20: get_total_time_served is the sum, over the subject's criminal
\* records in the guild, of max(0, E - start_time) with E the
\* actual_end_time when set and the scheduled end_time otherwise; a record
\* with a timestamp that does not parse adds zero.
C20_TotalTimeServed ==
    lastCall.op = "get_total_time_served"
    => LET mine == {k \in 1..Len(criminal_records) :
                      /\ criminal_records[k].user_id = lastCall.user_id
                      /\ criminal_records[k].guild_id = lastCall.guild_id}
           served == [k \in mine |->
                        LET record == criminal_records[k]
                        IN IF record.start_time.kind = "iso"
                              /\ EndOf(record).kind = "iso"
                           THEN LET span == fromisoformat(EndOf(record))
                                            - fromisoformat(record.start_time)
                                IN IF span > 0 THEN span ELSE 0
                           ELSE 0]
       IN lastCall.value = SumOver(served, mine)

C20_Witness ==
    /\ lastCall.op = "get_total_time_served"
    /\ lastCall.value = ClockStep
    /\ \E i, j \in 1..Len(criminal_records) :
          /\ i # j
          /\ criminal_records[i].user_id = lastCall.user_id
          /\ criminal_records[i].guild_id = lastCall.guild_id
          /\ criminal_records[i].start_time = isoformat(2 * ClockStep)
          /\ criminal_records[i].actual_end_time = isoformat(ClockStep)
          /\ criminal_records[j].user_id = lastCall.user_id
          /\ criminal_records[j].guild_id = lastCall.guild_id
          /\ criminal_records[j].start_time = isoformat(0)
          /\ criminal_records[j].actual_end_time = NullText
          /\ criminal_records[j].end_time = isoformat(ClockStep)

(***************************************************************************)
(* Criminal records.                                                       *)
(***************************************************************************)
\* the records of a subject that still lack actual_end_time
OpenRecords(records, user_id) ==
    {k \in 1..Len(records) : /\ records[k].user_id = user_id
                             /\ records[k].actual_end_time = NullText}

\* the audit entries a step appended
Appended(before, after) ==
    {after[k] : k \in (Len(before) + 1)..Len(after)}

\* C21: a step that creates a Suspension appends exactly one criminal
\* record and no other step appends any; an actual_end_time once set never
\* changes; a step that ends a subject's Suspension sets actual_end_time on
\* exactly one record, the last of the subject's records lacking it, and a
\* step that ends none sets none.
C21_OneRecordClosedOnce ==
    [][LET new == Appended(suspension_logs, suspension_logs')
           created == {e \in new : e.action = "SUSPENDED"}
           ended == {e \in new : e.action \in {"RELEASED", "EXPIRED"}}
           closed == {k \in 1..Len(criminal_records) :
                        /\ criminal_records[k].actual_end_time = NullText
                        /\ criminal_records'[k].actual_end_time # NullText}
       IN /\ Len(criminal_records') = Len(criminal_records) + Cardinality(created)
          /\ \A k \in 1..Len(criminal_records) :
                criminal_records[k].actual_end_time # NullText
                => criminal_records'[k] = criminal_records[k]
          /\ ended = {} => closed = {}
          /\ \A e \in ended :
                LET open == OpenRecords(criminal_records, e.user_id)
                IN closed = {k \in open : \A j \in open : j <= k}]_vars

(***************************************************************************)
(* The commands' checks and error paths.                                   *)
(***************************************************************************)
\* the command of a slot takes a step
Steps(slot) == interactions'[slot] # interactions[slot]

\* the command of a slot is awaiting a role call it issued
AwaitsRoleCall(it) ==
    it.pc \in {"jail_remove", "jail_add", "unjail_remove", "unjail_add"}

\* C23: a /jail or /unjail whose caller holds no allow-listed role ends at
\* once as denied: the step changes neither a role nor the store, and the
\* command never comes to await a role call.
C23_UnauthorizedNoEffect ==
    [][\A slot \in Slots :
          LET it == interactions'[slot]
          IN (it.kind \in {"jail", "unjail"} /\ CallerRoles(it.user) \cap ALLOWED_ROLES = {})
             => /\ it.pc = "done" /\ it.result = "denied"
                /\ ~AwaitsRoleCall(it)
                /\ Steps(slot) => UNCHANGED <<memberRoles, store>>]_vars

C23_Witness ==
    \E slot \in Slots :
        /\ interactions[slot].kind = "unjail"
        /\ interactions[slot].user = Civilian
        /\ interactions[slot].result = "denied"
        /\ ActiveRows(interactions[slot].member) # {}

\* C24: /jail answers "already jailed" when the subject has an active
\* Suspension, else "role not found" when the suspended role does not
\* resolve, else "invalid duration" when the label is not in the table, and
\* only otherwise goes on to the role calls; a rejected /jail awaits no
\* role call and changes neither a role nor the store.
C24_JailChecksInOrder ==
    [][\A slot \in Slots :
          LET it == interactions[slot]
              after == interactions'[slot]
              verdict ==
                  IF ActiveRows(it.member) # {} THEN "already_jailed"
                  ELSE IF SUSPENDED_ROLE_ID \notin guildRoles THEN "role_not_found"
                  ELSE IF it.duration \notin SUSPENSION_TIME_OPTIONS
                       THEN "invalid_duration"
                  ELSE "none"
          IN (it.pc = "jail_defer" /\ Steps(slot))
             => IF verdict = "none"
                THEN AwaitsRoleCall(after)
                ELSE /\ after.pc = "done" /\ after.result = verdict
                     /\ UNCHANGED <<memberRoles, store>>]_vars

C24_Witness ==
    \E slot \in Slots :
        /\ interactions[slot].kind = "jail"
        /\ interactions[slot].result = "role_not_found"
        /\ SUSPENDED_ROLE_ID \notin guildRoles
        /\ ActiveRows(interactions[slot].member) = {}

\* C26: a Suspension is created only for a subject who has no active
\* Suspension: of two /jail commands for one subject running together, one
\* creates the Suspension (one SUSPENDED entry, one criminal record) and
\* the other does not.
C26_OneCreationPerSubject ==
    [][\A e \in Appended(suspension_logs, suspension_logs') :
          e.action = "SUSPENDED"
          => ActiveRows(e.user_id) = {}]_vars

\* the command has got past its store call (db.add_suspension,
\* db.end_suspension) and awaits the sends or the refresh after it
HasWritten(it) ==
    it.pc \in {"jail_notify", "jail_refresh", "unjail_notify", "unjail_refresh"}

\* the step in which the command of a slot answers with a platform error
ReportsError(slot) ==
    /\ Steps(slot)
    /\ interactions'[slot].pc = "done"
    /\ interactions'[slot].result \in {"forbidden", "http_error"}

\* C27: a /jail or /unjail that answers with a platform error has made no
\* store call: the tables hold what they held when it began.
C27_ErrorLeavesStore ==
    [][\A slot \in Slots :
          ReportsError(slot)
          => ~HasWritten(interactions[slot]) /\ UNCHANGED store]_vars

\* C28: a /jail that created a Suspension, and an /unjail that ended one,
\* finishes by the return of update_bot_activity().
C28_RefreshBeforeFinish ==
    [][\A slot \in Slots :
          (/\ Steps(slot)
           /\ interactions'[slot].pc = "done"
           /\ HasWritten(interactions[slot]))
          => interactions[slot].pc \in {"jail_refresh", "unjail_refresh"}]_vars

(***************************************************************************)
(* Releases when a previous role is gone.                                  *)
(***************************************************************************)
\* the stored role ids that guild.get_role still resolves
Resolving(row) == Range(json_loads(row.previous_roles)) \cap guildRoles

\* the release of task t's item, or of the command of a slot, has begun:
\* the roles to add back have been looked up
SweepReaches(t) == Advances(t) /\ AtItem(sweeper'[t])

UnjailBegins(slot) ==
    /\ interactions[slot].pc = "unjail_defer"
    /\ Steps(slot)
    /\ ActiveRows(interactions[slot].member) # {}
    /\ SUSPENDED_ROLE_ID \in guildRoles

\* C30: a release looks up the stored role ids and goes on with those that
\* resolve, whatever the others: /unjail goes to its role calls without an
\* error answer, the sweep stops at the item; and a release whose role
\* calls all returned has taken the suspended role off, has added every
\* role that resolved and still exists, and ends the Suspension.
C30_UnresolvedRolesSkipped ==
    [][/\ \A slot \in Slots :
            LET it == interactions[slot]
                after == interactions'[slot]
            IN /\ UnjailBegins(slot)
                  => /\ after.pc = "unjail_remove"
                     /\ \A row \in ActiveRows(it.member) :
                           Range(after.previous_roles) = Resolving(row)
               /\ (AwaitsRoleCall(it) /\ it.kind = "unjail" /\ after.pc = "unjail_notify")
                  => /\ \A row \in suspensions' :
                           row.user_id = it.member => row.is_active = 0
                     /\ SUSPENDED_ROLE_ID \notin memberRoles'[it.member]
                     /\ Range(it.previous_roles) \subseteq memberRoles'[it.member]
       /\ \A t \in Tasks :
            LET me == sweeper[t]
                after == sweeper'[t]
            IN /\ SweepReaches(t)
                  => Range(after.previous_roles) = Resolving(after.expired[after.i])
               /\ (me.pc = "log" /\ Advances(t))
                  => LET user_id == me.expired[me.i].user_id
                     IN /\ \A row \in suspensions' :
                              row.user_id = user_id => row.is_active = 0
                        /\ user_id \in members
                           => /\ SUSPENDED_ROLE_ID \notin memberRoles'[user_id]
                              /\ Range(me.previous_roles) \cap guildRoles
                                    \subseteq memberRoles'[user_id]]_vars

C30_Witness ==
    /\ OtherRole \notin guildRoles
    /\ memberRoles[1] = {StaffRole}
    /\ ActiveRows(1) = {}
    /\ \E row \in suspensions :
          row.user_id = 1 /\ Range(json_loads(row.previous_roles)) = {StaffRole, OtherRole}
    /\ \E k \in 1..Len(suspension_logs) :
          suspension_logs[k].action \in {"RELEASED", "EXPIRED"}

(***************************************************************************)
(* The personal time-remaining lookup.                                     *)
(***************************************************************************)
\* C25 as stated: the lookup answers not-jailed without an active
\* Suspension, expired-pending when its end_time <= now, and in every
\* other case the remaining time with the duration label.
C25_AsStated ==
    lastCall.op = "time_remaining"
    => IF ActiveRows(lastCall.user_id) = {}
       THEN lastCall.answer = "not_incarcerated"
       ELSE \A row \in ActiveRows(lastCall.user_id) :
               IF row.end_time.kind = "iso"
                  /\ fromisoformat(row.end_time) <= lastCall.clock
               THEN lastCall.answer = "expired_not_processed"
               ELSE lastCall.answer = "remaining"

\* s seconds in days, hours and minutes, zero units left out
Units(s) ==
    LET d == CHOOSE d \in 0..s : d * 86400 <= s /\ s < (d + 1) * 86400
        h == CHOOSE h \in 0..23 : d * 86400 + h * 3600 <= s
                                   /\ s < d * 86400 + (h + 1) * 3600
        m == CHOOSE m \in 0..59 : d * 86400 + h * 3600 + m * 60 <= s
                                   /\ s < d * 86400 + h * 3600 + (m + 1) * 60
    IN SelectSeq(<<<<d, "day">>, <<h, "hour">>, <<m, "minute">>>>,
                 LAMBDA part : part[1] > 0)

\* C25: the lookup answers not-jailed without an active Suspension; with
\* one whose end_time parses, expired-pending when end_time <= now and
\* otherwise end_time - now (in days, hours and minutes) with the duration
\* label as stored; with one whose end_time does not parse, that the
\* sentence data cannot be read.  It changes neither the store nor a role.
C25_TimeRemaining ==
    /\ [](lastCall.op = "time_remaining"
           => IF ActiveRows(lastCall.user_id) = {}
              THEN lastCall.answer = "not_incarcerated"
              ELSE \A row \in ActiveRows(lastCall.user_id) :
                      IF row.end_time.kind # "iso"
                      THEN lastCall.answer = "unable_to_parse"
                      ELSE IF fromisoformat(row.end_time) <= lastCall.clock
                      THEN lastCall.answer = "expired_not_processed"
                      ELSE LET left == fromisoformat(row.end_time) - lastCall.clock
                           IN /\ lastCall.answer = "remaining"
                              /\ lastCall.label = row.duration_text
                              /\ lastCall.value = fromisoformat(row.end_time)
                              /\ IF left < 60
                                 THEN lastCall.parts = LessThanAMinute
                                 ELSE /\ Len(lastCall.parts) = Len(Units(left))
                                      /\ \A k \in 1..Len(lastCall.parts) :
                                            /\ lastCall.parts[k][1] = Units(left)[k][1]
                                            /\ lastCall.parts[k][2] \in
                                                  {Units(left)[k][2], Units(left)[k][2] \o "s"})
    /\ [][lastCall'.op = "time_remaining" /\ lastCall' # lastCall
          => UNCHANGED <<store, memberRoles>>]_vars

C25_Witness ==
    /\ lastCall.op = "time_remaining"
    /\ lastCall.answer = "remaining"
    /\ lastCall.label = "1 hour"
    /\ lastCall.parts = <<<<1, "day">>, <<1, "hour">>, <<1, "minute">>>>

(***************************************************************************)
(* The status publisher.                                                   *)
(***************************************************************************)
AllRefreshesDone == \A p \in Refreshers : refreshers[p].pc = "idle"

\* C22: when no send_sticky_message call is in flight, the channel holds at
\* most one message of the bot, and if it holds one it is the message
\* whose id is stored in sticky_messages.
C22_OneStatusMessage ==
    AllRefreshesDone
    => /\ Cardinality(court_channel) <= 1
       /\ court_channel \subseteq {sticky_messages}

\* C29: a call that read a stored id tries to delete that message before
\* it sends, and whatever comes of the attempt (deleted, not found, any
\* other error) it goes on to channel.send; a message that was deleted is
\* out of the channel by then; and a send that returns puts the new
\* message in the channel and its id in sticky_messages.
C29_DeleteThenSend ==
    [][\A p \in Refreshers :
          LET me == refreshers[p]
              after == refreshers'[p]
          IN /\ (me.pc = "idle" /\ after.pc # "idle")
                => IF sticky_messages # None
                   THEN after.pc = "fetch" /\ after.stored_message_id = sticky_messages
                   ELSE after.pc = "send"
             /\ (me.pc = "fetch" /\ after # me)
                => after.pc = IF after.old = "none" THEN "delete" ELSE "send"
             /\ (me.pc = "delete" /\ after # me)
                => /\ after.pc = "send"
                   /\ after.old = "deleted" => me.stored_message_id \notin court_channel'
             /\ (me.pc = "send" /\ after # me /\ after.message # None)
                => /\ after.message \notin court_channel
                   /\ after.message \in court_channel'
                   /\ after.message # me.stored_message_id
                   /\ sticky_messages' = after.message]_vars

C29_Witness ==
    \E p \in Refreshers :
        /\ refreshers[p].pc = "idle"
        /\ refreshers[p].old \in {"not_found", "error"}
        /\ refreshers[p].message # None
        /\ sticky_messages = refreshers[p].message
        /\ refreshers[p].message \in court_channel

(***************************************************************************)
(* What end_suspension writes.                                             *)
(***************************************************************************)
\* the direct call end_suspension(user_id, ended_by) is made on a subject
\* with an active row
EndsActive == lastCall'.op = "end" /\ invoked' = invoked + 1 /\ lastCall'.ret # NoRow

\* C31: end_suspension on a subject with an active row makes that row
\* inactive, appends one audit entry and closes the subject's open criminal
\* record in the one step: RELEASED / MANUAL_RELEASE with released_by the
\* caller when ended_by is given, EXPIRED / TIME_SERVED when it is not.
C31_EndRecordsReleaseKind ==
    [][EndsActive
       => LET user_id == lastCall'.user_id
              ended_by == lastCall'.value
              manual == ended_by # None
              new == Appended(suspension_logs, suspension_logs')
              closed == {k \in 1..Len(criminal_records) :
                           /\ criminal_records[k].actual_end_time = NullText
                           /\ criminal_records'[k].actual_end_time # NullText}
          IN /\ \A row \in suspensions' : row.user_id = user_id => row.is_active = 0
             /\ \E row \in suspensions : row.user_id = user_id /\ row.is_active = 1
             /\ Len(suspension_logs') = Len(suspension_logs) + 1
             /\ \A e \in new :
                   /\ e.user_id = user_id
                   /\ e.action = IF manual THEN "RELEASED" ELSE "EXPIRED"
             /\ closed # {}
             /\ \A k \in closed :
                   /\ criminal_records'[k].user_id = user_id
                   /\ criminal_records'[k].actual_end_time = isoformat(now)
                   /\ criminal_records'[k].release_type =
                         IF manual THEN "MANUAL_RELEASE" ELSE "TIME_SERVED"
                   /\ criminal_records'[k].released_by = ended_by]_vars

C31_Witness ==
    /\ lastCall.op = "end"
    /\ lastCall.value = Moderator
    /\ lastCall.ret # NoRow
    /\ \E k \in 1..Len(criminal_records) :
          /\ criminal_records[k].user_id = lastCall.user_id
          /\ criminal_records[k].release_type = "MANUAL_RELEASE"
          /\ criminal_records[k].released_by = Moderator
    /\ \E k \in 1..Len(suspension_logs) :
          /\ suspension_logs[k].user_id = lastCall.user_id
          /\ suspension_logs[k].action = "RELEASED"

(***************************************************************************)
(* The writers are atomic.                                                 *)
(***************************************************************************)
LogsOf(user_id) ==
    SelectSeq(suspension_logs, LAMBDA e : e.user_id = user_id)

RecordsOf(user_id) ==
    SelectSeq(criminal_records, LAMBDA r : r.user_id = user_id)

\* C32: in every state of the database file, also while a write is under
\* way and after the process died in the middle of one, the three changes
\* of each add_suspension and each end_suspension are all there or all
\* missing: a user has as many SUSPENDED audit entries as criminal records,
\* has an active row exactly when one of their records is open, and exactly
\* when their newest audit entry is SUSPENDED, and has a row exactly when
\* they have an audit entry.
C32_WritesAllOrNothing ==
    \A user_id \in Users :
        LET logs == LogsOf(user_id)
            active == ActiveRows(user_id) # {}
        IN /\ LogCount(user_id, {"SUSPENDED"}) = Len(RecordsOf(user_id))
           /\ active <=> OpenRecords(criminal_records, user_id) # {}
           /\ active <=> (logs # <<>> /\ logs[Len(logs)].action = "SUSPENDED")
           /\ (\E r \in suspensions : r.user_id = user_id) <=> logs # <<>>

\* the process died after the second statement of an end_suspension
C32_Witness ==
    /\ connection.pc = "lost"
    /\ connection.op = "end"
    /\ connection.done = 2
    /\ ActiveRows(connection.user_id) # {}
    /\ OpenRecords(criminal_records, connection.user_id) # {}

(***************************************************************************)
(* format_time_duration.                                                   *)
(***************************************************************************)
\* C33: format_time_duration returns "Less than a minute" for every span
\* below 60 seconds; for 60 seconds and more it returns a non-empty list of
\* the day count s div 86400, the hour count (s mod 86400) div 3600 and the
\* minute count (s mod 3600) div 60, in that order, without the counts that
\* are zero.
C33_FormatDuration ==
    lastCall.op = "format"
        => LET s == lastCall.value
               counts == <<<<s \div 86400, "day">>,
                           <<(s % 86400) \div 3600, "hour">>,
                           <<(s % 3600) \div 60, "minute">>>>
               kept == SelectSeq(counts, LAMBDA c : c[1] # 0)
               parts == lastCall.parts
           IN IF s < 60 THEN parts = LessThanAMinute
              ELSE /\ parts # <<>>
                   /\ Len(parts) = Len(kept)
                   /\ \A i \in 1..Len(kept) :
                        /\ parts[i][1] = kept[i][1]
                        /\ parts[i][2] \in {kept[i][2], kept[i][2] \o "s"}

\* one minute exactly, and a span with all three units
C33_Witness ==
    /\ lastCall.op = "format"
    /\ \/ lastCall.value = 60 /\ lastCall.parts = <<<<1, "minute">>>>
       \/ lastCall.value = 86400 + 23 * 3600 + 59 * 60 + 59
          /\ Len(lastCall.parts) = 3

(***************************************************************************)
(* The sweeper and a subject jailed again during its tick.                 *)
(***************************************************************************)
\* C34: the sweeper never ends a Suspension whose end_time is still in the
\* future, and issues no role mutation for a subject whose active Suspension
\* ends in the future: a step of the sweeper task leaves such a row active
\* and leaves the roles of its subject as they are.
C34_SweepSparesUnexpired ==
    [][\A t \in Tasks :
         sweeper'[t] # sweeper[t]
             => \A row \in suspensions :
                   (/\ row.is_active = 1
                    /\ Parses(row.end_time)
                    /\ fromisoformat(row.end_time) > now)
                       => /\ row \in suspensions'
                          /\ memberRoles'[row.user_id] = memberRoles[row.user_id]]_vars

(***************************************************************************)
(* The suspended role after a release.                                     *)
(***************************************************************************)
\* C36: once the role mutations of a release (manual or sweep) have
\* completed without a platform error, the subject does not hold the
\* suspended role, whatever roles the subject held when jailed.
C36_ReleasedWithoutSuspendedRole ==
    \A user_id \in Users :
        (Restored(user_id) /\ user_id \in members)
            => SUSPENDED_ROLE_ID \notin memberRoles[user_id]

(***************************************************************************)
(* The suspended role and the active record.                               *)
(***************************************************************************)
\* no command about the subject is running and no sweeper task is at the
\* subject's item
NothingInFlight(user_id) ==
    /\ \A slot \in Slots :
          interactions[slot].member = user_id
              => interactions[slot].pc \in {"idle", "done"}
    /\ \A t \in Tasks :
          AtItem(sweeper[t])
              => sweeper[t].expired[sweeper[t].i].user_id # user_id

\* C35: whenever no command or sweep step is in flight for a subject who is
\* a member, the subject holds the suspended role (which only the bot's
\* /jail hands out here) only if an active Suspension exists for them.
C35_RoleOnlyWithActiveRecord ==
    \A user_id \in Users :
        (/\ NothingInFlight(user_id)
         /\ user_id \in members
         /\ SUSPENDED_ROLE_ID \in memberRoles[user_id])
            => ActiveRows(user_id) # {}

(***************************************************************************)
(* on_message and the publisher.                                           *)
(***************************************************************************)
\* the messages of people in the court record channel on_message has run for
HandledPosts ==
    {k \in 1..Len(inbox) : /\ inbox[k].handled
                           /\ ~inbox[k].author_bot
                           /\ inbox[k].channel = COURT_RECORD_CHANNEL_ID}

\* the handlers waiting in asyncio.sleep(1) before their refresh
Sleeping == {p \in Refreshers : refreshers[p].pc = "sleep"}

\* C37: a message of a bot, the status message the publisher sends
\* included, never triggers a refresh, and a message of a person in the
\* tracked channel triggers exactly one: the refreshes begun, together with
\* the handlers still waiting to begin theirs, are as many as the messages
\* of people in the tracked channel that on_message has handled, so the
\* chain of republishing ends with the refresh of the last such message.
C37_OneRefreshPerHumanMessage ==
    refreshes + Cardinality(Sleeping) = Cardinality(HandledPosts)

\* a person's message was handled, its refresh sent the status message, and
\* on_message has run for that message of the bot as well
C37_Witness ==
    /\ Cardinality(HandledPosts) = 1
    /\ refreshes = 1
    /\ \A p \in Refreshers : refreshers[p].pc = "idle"
    /\ \E k \in 1..Len(inbox) : inbox[k].author_bot /\ inbox[k].handled

(***************************************************************************)
(* The earlier revision: the timed release after a manual one.             *)
(***************************************************************************)
\* the coroutine of /jail is asleep or in its timed release
TimedRelease(it) ==
    it.pc \in {"earlier_sleep", "earlier_release_remove", "earlier_release_add",
               "earlier_release_notify"}

\* C38: in the earlier revision, once the user a /jail coroutine jailed has
\* been released by /unjail, the rest of that coroutine (its timed release)
\* changes no role of anybody and leaves suspended_users as it is.
C38_NoReleaseAfterUnjail ==
    [][\A slot \in Slots :
          (/\ TimedRelease(interactions[slot])
           /\ interactions[slot].unjailed
           /\ interactions'[slot] # interactions[slot])
              => /\ memberRoles' = memberRoles
                 /\ suspended_users' = suspended_users]_vars

(***************************************************************************)
(* The choices of /jail and the resolver.                                  *)
(***************************************************************************)
\* C39: in the current and in the earlier revision, every duration the
\* choice list of /jail offers resolves to a positive number of seconds in
\* the resolver of the same revision, so none of them gives the -1 that
\* suspend rejects as an invalid duration.
C39_ChoicesResolve ==
    /\ (lastCall.op = "convert" /\ lastCall.arg \in SUSPENSION_TIME_OPTIONS)
          => lastCall.value > 0
    /\ (lastCall.op = "earlier_convert"
        /\ lastCall.arg \in Earlier_SUSPENSION_TIME_OPTIONS)
          => lastCall.value > 0

\* the choice only the earlier revision offers, resolved by its resolver
C39_Witness ==
    /\ lastCall.op = "earlier_convert"
    /\ lastCall.arg = "5 minutes"
    /\ lastCall.value = 300

=============================================================================
